---------------------------- MODULE Spec2Model ----------------------------
(***************************************************************************)
(* The fact emitter of polonius.next (src/src/fact_emitter.rs): a typed    *)
(* program is walked block by block, statement by statement, and six      *)
(* relations of facts are appended to a Facts accumulator.                 *)
(*                                                                         *)
(* Strings that the code inspects character by character (place bases,    *)
(* block names, node labels) are sequences of one-character strings;      *)
(* strings that are only compared for equality (origins, field and struct *)
(* names) are plain strings.                                               *)
(***************************************************************************)
EXTENDS Integers, Sequences, FiniteSets, TLC

VARIABLES program, simple_node_names, env_SIMPLE_NODES, loans,
          facts, pc, block_idx, stmt_idx, output, rendered

vars == <<program, simple_node_names, env_SIMPLE_NODES, loans,
          facts, pc, block_idx, stmt_idx, output, rendered>>

(***************************************************************************)
(* Bounds of the checked inputs.                                           *)
(***************************************************************************)
\* statements of a one-block program drawn from the statement universe
MaxStmts == 2
\* blocks of a program whose control-flow graph is varied
MaxCfgBlocks == 3
\* statements, over all its blocks, of such a program
MaxCfgStmts == 3

None == [tag |-> "None"]

Some(v) == [tag |-> "Some", val |-> v]

(***************************************************************************)
(* ast: types, parameters, places, expressions, statements                 *)
(***************************************************************************)
I32 == [tag |-> "I32"]

Unit == [tag |-> "Unit"]

Ref(o, t) == [tag |-> "Ref", origin |-> o, ty |-> t]

RefMut(o, t) == [tag |-> "RefMut", origin |-> o, ty |-> t]

Struct(n, ps) == [tag |-> "Struct", name |-> n, parameters |-> ps]

ParamOrigin(o) == [tag |-> "Origin", origin |-> o]

ParamTy(t) == [tag |-> "Ty", ty |-> t]

GenericOrigin(n) == [tag |-> "Origin", name |-> n]

GenericTy(n) == [tag |-> "Ty", name |-> n]

Place(b, fs) == [base |-> b, fields |-> fs]

Borrow(o) == [tag |-> "Borrow", origin |-> o]

BorrowMut(o) == [tag |-> "BorrowMut", origin |-> o]

Copy == [tag |-> "Copy"]

Move == [tag |-> "Move"]

Number(v) == [tag |-> "Number", value |-> v]

Access(k, p) == [tag |-> "Access", kind |-> k, place |-> p]

Call(c, args) == [tag |-> "Call", callee |-> c, arguments |-> args]

\* span: the source text the statement was parsed from, as the statement's
\* text followed by its separator character
Assign(p, e, text) ==
    [tag |-> "Assign", place |-> p, expr |-> e, span |-> <<text, ";">>]

ExprStmt(e, text) == [tag |-> "Expr", expr |-> e, span |-> <<text, ";">>]

(***************************************************************************)
(* Results of operations that can panic.                                   *)
(***************************************************************************)
Ok(v) == [ok |-> TRUE, val |-> v]

Panic(msg) == [ok |-> FALSE, msg |-> msg]

(***************************************************************************)
(* Ty: is_ref, visit_origins, has_origins, collect_origins_into            *)
(***************************************************************************)
\* a variant of is_ref that matches shared references only
is_ref_shared_only(ty) == ty.tag = "Ref"

is_ref(ty) == ty.tag \in {"Ref", "RefMut"}

\* on_origin_visited of the two visitors: OriginVisitor breaks at the first
\* origin, OriginCollector records it and continues
on_origin_visited(visitor) ==
    IF visitor = "OriginVisitor" THEN "Break" ELSE "Continue"

RECURSIVE visit_origins(_, _)
RECURSIVE visit_parameters(_, _, _)

\* [seen: the origins handed to the visitor, in order; some: the Option<()>
\*  returned, TRUE for Some(())]
visit_origins(ty, visitor) ==
    CASE ty.tag \in {"Ref", "RefMut"} ->
            IF on_origin_visited(visitor) = "Break"
            THEN [seen |-> <<ty.origin>>, some |-> TRUE]
            ELSE LET r == visit_origins(ty.ty, visitor)
                 IN  [seen |-> <<ty.origin>> \o r.seen, some |-> r.some]
      [] ty.tag = "Struct" -> visit_parameters(ty.parameters, 1, visitor)
      [] OTHER -> [seen |-> <<>>, some |-> FALSE]

RECURSIVE visit_parameters_all(_, _, _)
\* a variant of visit_parameters that goes on to the next parameter after a
\* Parameter::Ty whose visit did not break
visit_parameters_all(parameters, k, visitor) ==
    IF k > Len(parameters) THEN [seen |-> <<>>, some |-> FALSE]
    ELSE LET param == parameters[k]
             r == IF param.tag = "Origin"
                  THEN [seen |-> <<param.origin>>,
                        some |-> on_origin_visited(visitor) = "Break"]
                  ELSE visit_origins(param.ty, visitor)
         IN  IF r.some THEN r
             ELSE LET rest == visit_parameters_all(parameters, k + 1, visitor)
                  IN  [seen |-> r.seen \o rest.seen, some |-> rest.some]

\* the loop over a struct's parameters, from the k-th on
visit_parameters(parameters, k, visitor) ==
    IF k > Len(parameters) THEN [seen |-> <<>>, some |-> FALSE]
    ELSE LET param == parameters[k] IN
         IF param.tag = "Origin"
         THEN IF on_origin_visited(visitor) = "Break"
              THEN [seen |-> <<param.origin>>, some |-> TRUE]
              ELSE LET r == visit_parameters(parameters, k + 1, visitor)
                   IN  [seen |-> <<param.origin>> \o r.seen, some |-> r.some]
         ELSE \* Parameter::Ty: return ty.visit_origins(visitor)
              visit_origins(param.ty, visitor)

has_origins(ty) == visit_origins(ty, "OriginVisitor").some

collect_origins_into(ty, origins) ==
    origins \o visit_origins(ty, "OriginCollector").seen

(***************************************************************************)
(* Place::deref_base                                                       *)
(***************************************************************************)
\* a variant of deref_base that leaves the `*` in the name
deref_base_whole(place) ==
    IF Len(place.base) > 0 /\ place.base[1] = "*"
    THEN Some(place.base)
    ELSE None

deref_base(place) ==
    IF Len(place.base) > 0 /\ place.base[1] = "*"
    THEN Some(Tail(place.base))
    ELSE None

(***************************************************************************)
(* FactEmitter::walk_place_tys, ty_of_place, origins_of_place              *)
(***************************************************************************)
\* iter().find(pred): the first element with the given name, or None
FindByName(seq, name) ==
    IF \E k \in 1..Len(seq) : seq[k].name = name
    THEN seq[CHOOSE k \in 1..Len(seq) :
                /\ seq[k].name = name
                /\ \A j \in 1..(k - 1) : seq[j].name /= name]
    ELSE None

\* a variant of GenericPosition that finds no declaration
GenericPosition_none(generic_decls, field_ty_name) == None

\* generic_decls.iter().position(..): the 0-based index of the first type
\* parameter declaration named like the field's type, or None
GenericPosition(generic_decls, field_ty_name) ==
    LET hit(k) == generic_decls[k].tag = "Ty" /\ generic_decls[k].name = field_ty_name
    IN  IF \E k \in 1..Len(generic_decls) : hit(k)
        THEN Some((CHOOSE k \in 1..Len(generic_decls) :
                      hit(k) /\ \A j \in 1..(k - 1) : ~hit(j)) - 1)
        ELSE None

\* the field's type once the position idx of its generic declaration is
\* known: the type parameter of ty at that position, or the field's own type
\* when it names no generic declaration
SubstituteGeneric(ty, field, idx) ==
    IF idx = None THEN Ok(field.ty)
    ELSE IF idx.val >= Len(ty.parameters) THEN Panic("index out of bounds")
         ELSE IF ty.parameters[idx.val + 1].tag = "Ty"
              THEN Ok(ty.parameters[idx.val + 1].ty)
              ELSE Panic("The parameter should be a Ty")

\* the type of the field found in decl
FieldTyOfField(ty, decl, field) ==
    IF field = None THEN Panic("Can't find field")
    ELSE IF field.ty.tag = "Struct"
         THEN SubstituteGeneric(ty, field,
                  GenericPosition(decl.generic_decls, field.ty.name))
         ELSE Ok(field.ty)

\* the type of field_name in the struct declared by decl
FieldTyInDecl(ty, decl, field_name) ==
    IF decl = None THEN Panic("Can't find struct")
    ELSE FieldTyOfField(ty, decl, FindByName(decl.field_decls, field_name))

\* one step of the fold over place.fields: the type of field_name in ty
FieldTy(prog, ty, field_name) ==
    IF ty.tag /= "Struct" THEN Panic("must be a struct to access its fields")
    ELSE FieldTyInDecl(ty, FindByName(prog.struct_decls, ty.name), field_name)

RECURSIVE FoldFields(_, _, _, _, _)
RECURSIVE FoldStep(_, _, _, _, _, _)
\* the fold over place.fields from the k-th field on; walked are the types
\* handed to ty_walked_callback so far
FoldFields(prog, ty, fields, k, walked) ==
    IF k > Len(fields) THEN [ok |-> TRUE, ty |-> ty, walked |-> walked]
    ELSE FoldStep(prog, ty, fields, k, walked, FieldTy(prog, ty, fields[k]))

\* the fold's closure on the k-th field, whose type lookup gave field_ty
FoldStep(prog, ty, fields, k, walked, field_ty) ==
    IF field_ty.ok
    THEN FoldFields(prog, field_ty.val, fields, k + 1, Append(walked, ty))
    ELSE [ok |-> FALSE, msg |-> field_ty.msg]

\* the callback on the final type, after the fold
WalkFinalTy(folded) ==
    IF folded.ok
    THEN [ok |-> TRUE, ty |-> folded.ty,
          walked |-> Append(folded.walked, folded.ty)]
    ELSE folded

\* the walk from the declaration v of the place's base variable
WalkFromVariable(prog, place, v) ==
    IF v = None THEN [ok |-> FALSE, msg |-> "Can't find variable"]
    ELSE IF place.fields = <<>>
         THEN [ok |-> TRUE, ty |-> v.ty, walked |-> <<v.ty>>]
         ELSE IF v.ty.tag /= "Struct"
              THEN [ok |-> FALSE, msg |-> "assertion failed"]
              ELSE WalkFinalTy(FoldFields(prog, v.ty, place.fields, 1, <<>>))

\* [ok, ty: the place's type, walked: the types handed to the callback]
walk_place_tys(prog, place) ==
    WalkFromVariable(prog, place,
        FindByName(prog.variables,
                   IF deref_base(place) /= None THEN deref_base(place).val
                   ELSE place.base))

ty_of_place(prog, place) == walk_place_tys(prog, place)

RECURSIVE CollectAll(_, _, _)
CollectAll(walked, k, origins) ==
    IF k > Len(walked) THEN origins
    ELSE CollectAll(walked, k + 1, collect_origins_into(walked[k], origins))

\* the origins collected by the callback over the walked types
OriginsOfWalk(r) ==
    IF r.ok THEN [ok |-> TRUE, origins |-> CollectAll(r.walked, 1, <<>>)]
    ELSE r

\* [ok, origins]
origins_of_place(prog, place) == OriginsOfWalk(walk_place_tys(prog, place))

(***************************************************************************)
(* Facts and FactEmitter::node_at                                          *)
(***************************************************************************)
\* Default::default() of Facts
DefaultFacts ==
    [access_origin |-> <<>>, cfg_edge |-> <<>>, clear_origin |-> <<>>,
     introduce_subset |-> <<>>, invalidate_origin |-> <<>>, node_text |-> <<>>]

\* 'a' as u32
LetterA == 97

\* char::from_u32 on the code points from 'a' on
CharTable ==
    <<"a", "b", "c", "d", "e", "f", "g", "h", "i", "j", "k", "l", "m",
      "n", "o", "p", "q", "r", "s", "t", "u", "v", "w", "x", "y", "z",
      "{", "|", "}", "~">>

char_from_u32(n) == CharTable[n - LetterA + 1]

DigitTable == <<"0", "1", "2", "3", "4", "5", "6", "7", "8", "9">>

RECURSIVE FormatUsize(_)
\* "{}" of a usize: its decimal digits
FormatUsize(n) ==
    IF n < 10 THEN <<DigitTable[n + 1]>>
    ELSE FormatUsize(n \div 10) \o <<DigitTable[(n % 10) + 1]>>

Max(a, b) == IF a >= b THEN a ELSE b

RECURSIVE StatementStartIdx_no_max(_, _, _)
\* a variant of StatementStartIdx that counts an empty block as no slot
StatementStartIdx_no_max(basic_blocks, k, block) ==
    IF k > Len(basic_blocks) \/ basic_blocks[k].name = block THEN 0
    ELSE Len(basic_blocks[k].statements)
         + StatementStartIdx_no_max(basic_blocks, k + 1, block)

RECURSIVE StatementStartIdx(_, _, _)
\* take_while(|bb| block != bb.name).fold(0, |acc, bb| acc + len.max(1)),
\* over the blocks from the k-th on
StatementStartIdx(basic_blocks, k, block) ==
    IF k > Len(basic_blocks) \/ basic_blocks[k].name = block THEN 0
    ELSE Max(Len(basic_blocks[k].statements), 1)
         + StatementStartIdx(basic_blocks, k + 1, block)

node_at(prog, simple, env, block, statement_idx) ==
    IF simple \/ env
    THEN <<char_from_u32(LetterA + StatementStartIdx(prog.basic_blocks, 1, block)
                         + statement_idx)>>
    ELSE block \o <<"[">> \o FormatUsize(statement_idx) \o <<"]">>

(***************************************************************************)
(* FactEmitter::new: the loan index                                        *)
(***************************************************************************)
\* HashMap::get
LoansGet(lns, place) ==
    IF \E k \in 1..Len(lns) : lns[k].key = place
    THEN Some((CHOOSE e \in {lns[k] : k \in 1..Len(lns)} : e.key = place).value)
    ELSE None

\* entry(place).or_default().push(loan)
LoansPush(lns, place, loan) ==
    IF \E k \in 1..Len(lns) : lns[k].key = place
    THEN [k \in 1..Len(lns) |->
            IF lns[k].key = place
            THEN [lns[k] EXCEPT !.value = Append(@, loan)]
            ELSE lns[k]]
    ELSE Append(lns, [key |-> place, value |-> <<loan>>])

\* a variant of CollectLoan that indexes shared borrows only
CollectLoan_shared_only(lns, s, block_idx0, statement_idx0) ==
    IF s.expr.tag = "Access" /\ s.expr.kind.tag = "Borrow"
    THEN LoansPush(lns, s.expr.place,
                   [origin |-> s.expr.kind.origin,
                    location |-> <<block_idx0, statement_idx0>>])
    ELSE lns

\* the body of the loop over the statements of new
CollectLoan(lns, s, block_idx0, statement_idx0) ==
    IF s.expr.tag = "Access" /\ s.expr.kind.tag \in {"Borrow", "BorrowMut"}
    THEN LoansPush(lns, s.expr.place,
                   [origin |-> s.expr.kind.origin,
                    location |-> <<block_idx0, statement_idx0>>])
    ELSE lns

RECURSIVE CollectLoans(_, _, _, _)
\* the two loops of new, from statement i (0-based) of block b (0-based) on;
\* the entries are listed in the order of their insertion
CollectLoans(basic_blocks, b, i, lns) ==
    IF b >= Len(basic_blocks) THEN lns
    ELSE IF i >= Len(basic_blocks[b + 1].statements)
         THEN CollectLoans(basic_blocks, b + 1, 0, lns)
         ELSE CollectLoans(basic_blocks, b, i + 1,
                           CollectLoan(lns, basic_blocks[b + 1].statements[i + 1], b, i))

\* The map's entries in the order the hasher's random state lays them out:
\* any order.
HashMapLayouts(entries) ==
    LET n == Len(entries)
        perms == {f \in [1..n -> 1..n] : \A a, b \in 1..n : f[a] = f[b] => a = b}
    IN  {[k \in 1..n |-> entries[f[k]]] : f \in perms}

(***************************************************************************)
(* The emitter's steps.  Each takes and returns a run: the Facts so far    *)
(* and whether the emitter is still running (ok) or has panicked.          *)
(***************************************************************************)
Running(f) == [facts |-> f, ok |-> TRUE]

Panicked(f) == [facts |-> f, ok |-> FALSE]

\* facts.<relation>.push((origin, node)) for each origin, in order
PushOrigins(f, relation, origins, node) ==
    [f EXCEPT ![relation] = @ \o [k \in 1..Len(origins) |-> <<origins[k], node>>]]

PushSubset(f, o1, o2, node) ==
    [f EXCEPT !.introduce_subset = Append(@, <<o1, o2, node>>)]

RECURSIVE AllLoanOrigins(_, _)
AllLoanOrigins(lns, k) ==
    IF k > Len(lns) THEN <<>>
    ELSE [j \in 1..Len(lns[k].value) |-> lns[k].value[j].origin]
         \o AllLoanOrigins(lns, k + 1)

\* a variant of LoanOrigins that iterates over the whole map once the place
\* is known to be borrowed
LoanOrigins_whole_map(lns, place) ==
    IF LoansGet(lns, place) = None THEN <<>> ELSE AllLoanOrigins(lns, 1)

\* the origins of the loans of place, in the order of the entry's Vec
LoanOrigins(lns, place) ==
    LET got == LoansGet(lns, place)
    IN  IF got = None THEN <<>>
        ELSE [k \in 1..Len(got.val) |-> got.val[k].origin]

\* a variant of EmitBorrowMut that leaves out the accesses
EmitBorrowMut_no_access(lns, node, place, o, f) ==
    IF ~o.ok THEN Panicked(f)
    ELSE Running(PushOrigins(f, "invalidate_origin", LoanOrigins(lns, place), node))

\* "Borrowing mutably counts as a write": the accesses of the place's
\* origins o, then the invalidation of the loans of the place
EmitBorrowMut(lns, node, place, o, f) ==
    IF ~o.ok THEN Panicked(f)
    ELSE Running(PushOrigins(PushOrigins(f, "access_origin", o.origins, node),
                             "invalidate_origin", LoanOrigins(lns, place), node))

\* "Borrowing clears its origin", then the write of a mutable borrow
EmitBorrow(prog, lns, node, expr, f) ==
    IF expr.kind.tag = "BorrowMut"
    THEN EmitBorrowMut(lns, node, expr.place,
                       origins_of_place(prog, expr.place), f)
    ELSE Running(f)

\* a variant of EmitRead that accesses the first origin of the place only
EmitRead_first(node, o, f) ==
    IF ~o.ok THEN Panicked(f)
    ELSE Running(PushOrigins(f, "access_origin",
                             SubSeq(o.origins, 1, Len(o.origins) - Max(Len(o.origins) - 1, 0)), node))

\* "Reading a place accesses all of its origins" o
EmitRead(node, o, f) ==
    IF ~o.ok THEN Panicked(f)
    ELSE Running(PushOrigins(f, "access_origin", o.origins, node))

RECURSIVE emit_expr_facts(_, _, _, _, _)
RECURSIVE EmitArguments(_, _, _, _, _, _)

emit_expr_facts(prog, lns, node, expr, run) ==
    IF ~run.ok THEN run
    ELSE
    CASE expr.tag = "Access" /\ expr.kind.tag \in {"Borrow", "BorrowMut"} ->
            EmitBorrow(prog, lns, node, expr,
                       PushOrigins(run.facts, "clear_origin",
                                   <<expr.kind.origin>>, node))
      [] expr.tag = "Access" /\ expr.kind.tag \in {"Copy", "Move"} ->
            EmitRead(node, origins_of_place(prog, expr.place), run.facts)
      [] expr.tag = "Call" ->
            EmitArguments(prog, lns, node, expr.arguments, 1, run)
      [] OTHER -> run

\* a variant of EmitArguments that evaluates the first argument only
EmitArguments_first_only(prog, lns, node, arguments, k, run) ==
    IF k > Len(arguments) \/ k > 1 \/ ~run.ok THEN run
    ELSE emit_expr_facts(prog, lns, node, arguments[k], run)

\* arguments.iter().for_each(..), from the k-th argument on
EmitArguments(prog, lns, node, arguments, k, run) ==
    IF k > Len(arguments) \/ ~run.ok THEN run
    ELSE EmitArguments(prog, lns, node, arguments, k + 1,
                       emit_expr_facts(prog, lns, node, arguments[k], run))

(***************************************************************************)
(* FactEmitter::relate_tys                                                 *)
(***************************************************************************)
\* a variant of ChildVariance that flips the variance below a shared
\* reference
ChildVariance_flipped(param, variance) ==
    IF param.tag = "RefMut" THEN "Invariant"
    ELSE IF variance = "Covariant" THEN "Contravariant" ELSE variance

\* "Unique references change the relationships of their children parameter
\* pairs: they must be invariant."
ChildVariance(param, variance) ==
    IF param.tag = "RefMut" THEN "Invariant" ELSE variance

RECURSIVE relate_tys(_, _, _, _, _)
RECURSIVE RelateParameters(_, _, _, _, _, _)

RECURSIVE RelateParameters_keep_variance(_, _, _, _, _, _)
\* a variant of RelateParameters that keeps the variance below a pair of
\* unique references
RelateParameters_keep_variance(node, lhs_args, rhs_args, k, variance, run) ==
    IF k > Len(lhs_args) \/ k > Len(rhs_args) \/ ~run.ok THEN run
    ELSE
    LET lhs_arg == lhs_args[k]
        rhs_arg == rhs_args[k]
        after ==
          IF lhs_arg.tag = "Ty" /\ rhs_arg.tag = "Ty"
          THEN IF \/ lhs_arg.ty.tag = "Ref" /\ rhs_arg.ty.tag = "Ref"
                  \/ lhs_arg.ty.tag = "RefMut" /\ rhs_arg.ty.tag = "RefMut"
               THEN LET target_origin == lhs_arg.ty.origin
                        source_origin == rhs_arg.ty.origin
                        f1 == IF variance \in {"Covariant", "Invariant"}
                              THEN PushSubset(run.facts, source_origin,
                                              target_origin, node)
                              ELSE run.facts
                        f2 == IF variance \in {"Contravariant", "Invariant"}
                              THEN PushSubset(f1, target_origin,
                                              source_origin, node)
                              ELSE f1
                    IN  relate_tys(node, lhs_arg.ty.ty, rhs_arg.ty.ty, variance,
                                   Running(f2))
               ELSE relate_tys(node, lhs_arg.ty, rhs_arg.ty, variance, run)
          ELSE Panicked(run.facts)
    IN  RelateParameters_keep_variance(node, lhs_args, rhs_args, k + 1, variance,
                                       after)

relate_tys(node, lhs_ty, rhs_ty, variance, run) ==
    IF ~run.ok THEN run
    ELSE IF lhs_ty.tag = "Struct" /\ rhs_ty.tag = "Struct"
         THEN RelateParameters(node, lhs_ty.parameters, rhs_ty.parameters, 1,
                               variance, run)
         ELSE run

\* the loop over lhs_args.iter().zip(rhs_args.iter()), from the k-th pair on
RelateParameters(node, lhs_args, rhs_args, k, variance, run) ==
    IF k > Len(lhs_args) \/ k > Len(rhs_args) \/ ~run.ok THEN run
    ELSE
    LET lhs_arg == lhs_args[k]
        rhs_arg == rhs_args[k]
        after ==
          IF lhs_arg.tag = "Ty" /\ rhs_arg.tag = "Ty"
          THEN IF \/ lhs_arg.ty.tag = "Ref" /\ rhs_arg.ty.tag = "Ref"
                  \/ lhs_arg.ty.tag = "RefMut" /\ rhs_arg.ty.tag = "RefMut"
               THEN LET target_origin == lhs_arg.ty.origin
                        source_origin == rhs_arg.ty.origin
                        f1 == IF variance \in {"Covariant", "Invariant"}
                              THEN PushSubset(run.facts, source_origin,
                                              target_origin, node)
                              ELSE run.facts
                        f2 == IF variance \in {"Contravariant", "Invariant"}
                              THEN PushSubset(f1, target_origin,
                                              source_origin, node)
                              ELSE f1
                    IN  relate_tys(node, lhs_arg.ty.ty, rhs_arg.ty.ty,
                                   ChildVariance(lhs_arg.ty, variance),
                                   Running(f2))
               ELSE relate_tys(node, lhs_arg.ty, rhs_arg.ty, variance, run)
          ELSE \* todo!()
               Panicked(run.facts)
    IN  RelateParameters(node, lhs_args, rhs_args, k + 1, variance, after)

RECURSIVE relate_tys_calls(_, _, _, _)
RECURSIVE RelateParametersCalls(_, _, _, _)
\* the calls of relate_tys that a call with these arguments makes, itself
\* first, in call order: for each the variance it receives and the variance
\* of its caller ("none" when emit_subset_facts calls)
relate_tys_calls(lhs_ty, rhs_ty, variance, caller) ==
    << [variance |-> variance, caller |-> caller] >>
    \o (IF lhs_ty.tag = "Struct" /\ rhs_ty.tag = "Struct"
        THEN RelateParametersCalls(lhs_ty.parameters, rhs_ty.parameters, 1,
                                   variance)
        ELSE <<>>)

\* the calls of the loop over the zipped parameters, from the k-th pair on
RelateParametersCalls(lhs_args, rhs_args, k, variance) ==
    IF k > Len(lhs_args) \/ k > Len(rhs_args) THEN <<>>
    ELSE IF lhs_args[k].tag = "Ty" /\ rhs_args[k].tag = "Ty"
         THEN (IF \/ lhs_args[k].ty.tag = "Ref" /\ rhs_args[k].ty.tag = "Ref"
                  \/ lhs_args[k].ty.tag = "RefMut" /\ rhs_args[k].ty.tag = "RefMut"
               THEN relate_tys_calls(lhs_args[k].ty.ty, rhs_args[k].ty.ty,
                                     ChildVariance(lhs_args[k].ty, variance),
                                     variance)
               ELSE relate_tys_calls(lhs_args[k].ty, rhs_args[k].ty, variance,
                                     variance))
              \o RelateParametersCalls(lhs_args, rhs_args, k + 1, variance)
         ELSE \* todo!()
              <<>>

\* the calls of relate_tys made for the match on (lhs_ty, rhs_expr) of
\* emit_subset_facts; kind is the access kind of rhs_expr and rhs the
\* ty_of_place of its place
MatchSubsetCalls(lhs_ty, kind, rhs) ==
    CASE ~rhs.ok -> <<>>
      [] lhs_ty.tag = "Ref" /\ kind = "Borrow" ->
            relate_tys_calls(lhs_ty.ty, rhs.ty, "Covariant", "none")
      [] lhs_ty.tag = "Ref" /\ kind \in {"Copy", "Move"} /\ rhs.ty.tag = "Ref" ->
            relate_tys_calls(lhs_ty.ty, rhs.ty.ty, "Covariant", "none")
      [] lhs_ty.tag = "RefMut" /\ kind = "BorrowMut" ->
            relate_tys_calls(lhs_ty.ty, rhs.ty, "Invariant", "none")
      [] lhs_ty.tag = "RefMut" /\ kind \in {"Copy", "Move"} /\ rhs.ty.tag = "RefMut" ->
            relate_tys_calls(lhs_ty.ty, rhs.ty.ty, "Invariant", "none")
      [] lhs_ty.tag = "Struct" /\ kind \in {"Copy", "Move"} ->
            relate_tys_calls(lhs_ty, rhs.ty, "Covariant", "none")
      [] OTHER -> <<>>

(***************************************************************************)
(* FactEmitter::assert_no_origins_are_present and emit_subset_facts        *)
(***************************************************************************)
\* the assertion on the type rhs_ty of a place that is read
AssertNoOriginsInRhs(rhs_ty) == rhs_ty.ok /\ has_origins(rhs_ty.ty) = FALSE

\* TRUE when every assertion passes, FALSE when one panics
assert_no_origins_are_present(prog, lhs_ty, rhs_expr) ==
    /\ has_origins(lhs_ty) = FALSE
    /\ rhs_expr.tag = "Access" =>
          /\ rhs_expr.kind.tag \notin {"Borrow", "BorrowMut"}
          /\ AssertNoOriginsInRhs(ty_of_place(prog, rhs_expr.place))

\* the match on (lhs_ty, rhs_expr); kind is the access kind of rhs_expr and
\* rhs the ty_of_place of its place, when rhs_expr is an access
MatchSubset(prog, node, lhs_ty, rhs_expr, kind, rhs, run) ==
    CASE lhs_ty.tag = "Ref" /\ kind = "Borrow" ->
            LET f1 == PushSubset(run.facts, rhs_expr.kind.origin,
                                 lhs_ty.origin, node)
            IN  IF ~rhs.ok THEN Panicked(f1)
                ELSE relate_tys(node, lhs_ty.ty, rhs.ty, "Covariant", Running(f1))
      [] lhs_ty.tag = "Ref" /\ kind \in {"Copy", "Move"} ->
            IF ~rhs.ok THEN Panicked(run.facts)
            ELSE IF rhs.ty.tag = "Ref"
                 THEN relate_tys(node, lhs_ty.ty, rhs.ty.ty, "Covariant",
                                 Running(PushSubset(run.facts, rhs.ty.origin,
                                                    lhs_ty.origin, node)))
                 ELSE \* unreachable!()
                      Panicked(run.facts)
      [] lhs_ty.tag = "RefMut" /\ kind = "BorrowMut" ->
            LET f1 == PushSubset(run.facts, rhs_expr.kind.origin,
                                 lhs_ty.origin, node)
            IN  IF ~rhs.ok THEN Panicked(f1)
                ELSE relate_tys(node, lhs_ty.ty, rhs.ty, "Invariant", Running(f1))
      [] lhs_ty.tag = "RefMut" /\ kind \in {"Copy", "Move"} ->
            IF ~rhs.ok THEN Panicked(run.facts)
            ELSE IF rhs.ty.tag = "RefMut"
                 THEN relate_tys(node, lhs_ty.ty, rhs.ty.ty, "Invariant",
                                 Running(PushSubset(run.facts, rhs.ty.origin,
                                                    lhs_ty.origin, node)))
                 ELSE \* unreachable!()
                      Panicked(run.facts)
      [] lhs_ty.tag = "Struct" /\ kind \in {"Copy", "Move"} ->
            IF ~rhs.ok THEN Panicked(run.facts)
            ELSE relate_tys(node, lhs_ty, rhs.ty, "Covariant", run)
      [] rhs_expr.tag = "Call" -> run
      [] OTHER ->
            IF assert_no_origins_are_present(prog, lhs_ty, rhs_expr)
            THEN run ELSE Panicked(run.facts)

\* a variant of emit_subset_facts without the arm for calls, which fall
\* through to the assertion
emit_subset_facts_calls_asserted(prog, node, lhs_ty, rhs_expr, run) ==
    IF ~run.ok THEN run
    ELSE IF rhs_expr.tag = "Access"
         THEN MatchSubset(prog, node, lhs_ty, rhs_expr, rhs_expr.kind.tag,
                          ty_of_place(prog, rhs_expr.place), run)
         ELSE IF assert_no_origins_are_present(prog, lhs_ty, rhs_expr)
              THEN run ELSE Panicked(run.facts)

emit_subset_facts(prog, node, lhs_ty, rhs_expr, run) ==
    IF ~run.ok THEN run
    ELSE IF rhs_expr.tag = "Access"
         THEN MatchSubset(prog, node, lhs_ty, rhs_expr, rhs_expr.kind.tag,
                          ty_of_place(prog, rhs_expr.place), run)
         ELSE MatchSubset(prog, node, lhs_ty, rhs_expr, "none", None, run)

(***************************************************************************)
(* FactEmitter::emit_cfg_edges and the statement loop of emit_block_facts  *)
(***************************************************************************)
\* a variant of saturating_sub that subtracts nothing
saturating_sub_nothing(a, b) == a

\* statement_count.saturating_sub(1)
saturating_sub(a, b) == IF a >= b THEN a - b ELSE 0

emit_cfg_edges(prog, simple, env, bb, f) ==
    LET statement_count == Len(bb.statements)
        intra == [idx \in 1..(statement_count - 1) |->
                    <<node_at(prog, simple, env, bb.name, idx - 1),
                      node_at(prog, simple, env, bb.name, idx)>>]
        inter == [k \in 1..Len(bb.successors) |->
                    <<node_at(prog, simple, env, bb.name,
                              saturating_sub(statement_count, 1)),
                      node_at(prog, simple, env, bb.successors[k], 0)>>]
    IN  [f EXCEPT !.cfg_edge = @ \o intra \o inter]

\* self.input[span.start()..span.end() - 1]
statement_text(s) == SubSeq(s.span, 1, Len(s.span) - 1)

RECURSIVE Dedup(_)
Dedup(seq) ==
    IF seq = <<>> THEN <<>>
    ELSE LET front == SubSeq(seq, 1, Len(seq) - 1)
             rest == Dedup(front)
         IN  IF \E k \in 1..Len(front) : front[k] = seq[Len(seq)]
             THEN rest ELSE Append(rest, seq[Len(seq)])

\* a variant of ClearLhsOrigins that clears each origin of the type once
ClearLhsOrigins_once(f, lhs_origins, node) ==
    PushOrigins(f, "clear_origin", Dedup(lhs_origins), node)

\* "Assignments clear all origins in the type"
ClearLhsOrigins(f, lhs_origins, node) ==
    PushOrigins(f, "clear_origin", lhs_origins, node)

\* a variant of InvalidateLhsLoans with the test of is_ref inverted
InvalidateLhsLoans_inverted(f, lns, lhs_ty, place, node) ==
    IF is_ref(lhs_ty)
    THEN PushOrigins(f, "invalidate_origin", LoanOrigins(lns, place), node)
    ELSE f

\* "Assignments to non-references invalidate loans borrowing from them"
InvalidateLhsLoans(f, lns, lhs_ty, place, node) ==
    IF ~is_ref(lhs_ty)
    THEN PushOrigins(f, "invalidate_origin", LoanOrigins(lns, place), node)
    ELSE f

\* Statement::Assign(place, expr) at node, with lhs_ty the ty_of_place and
\* lhs_origins the origins_of_place of place
EmitAssignFacts(prog, lns, node, s, lhs_ty, lhs_origins, f) ==
    IF ~lhs_ty.ok THEN Panicked(f)
    ELSE emit_subset_facts(prog, node, lhs_ty.ty, s.expr,
            emit_expr_facts(prog, lns, node, s.expr,
                Running(InvalidateLhsLoans(
                            ClearLhsOrigins(f, lhs_origins.origins, node),
                            lns, lhs_ty.ty, s.place, node))))

\* the match on the statement s at node, after its node_text was pushed
MatchStatement(prog, lns, node, s, f) ==
    IF s.tag = "Assign"
    THEN EmitAssignFacts(prog, lns, node, s, ty_of_place(prog, s.place),
                         origins_of_place(prog, s.place), f)
    ELSE emit_expr_facts(prog, lns, node, s.expr, Running(f))

\* facts.node_text.push((statement_text, node))
PushNodeText(f, s, node) ==
    [f EXCEPT !.node_text = Append(@, <<statement_text(s), node>>)]

\* the statement s with its node
EmitStatementAt(prog, lns, node, s, f) ==
    MatchStatement(prog, lns, node, s, PushNodeText(f, s, node))

\* a variant of emit_statement_facts that names the node after the
\* statement's
emit_statement_facts_next_node(prog, lns, simple, env, bb, idx, f) ==
    EmitStatementAt(prog, lns, node_at(prog, simple, env, bb.name, idx + 1),
                    bb.statements[idx + 1], f)

\* the body of the loop over bb.statements, for the statement at idx
emit_statement_facts(prog, lns, simple, env, bb, idx, f) ==
    EmitStatementAt(prog, lns, node_at(prog, simple, env, bb.name, idx),
                    bb.statements[idx + 1], f)

RECURSIVE EmitStatementsFrom(_, _, _, _, _, _, _)
\* the loop over bb.statements, from the statement at idx on
EmitStatementsFrom(prog, lns, simple, env, bb, idx, run) ==
    IF idx >= Len(bb.statements) \/ ~run.ok THEN run
    ELSE EmitStatementsFrom(prog, lns, simple, env, bb, idx + 1,
            emit_statement_facts(prog, lns, simple, env, bb, idx, run.facts))

emit_block_facts(prog, lns, simple, env, bb, run) ==
    IF ~run.ok THEN run
    ELSE EmitStatementsFrom(prog, lns, simple, env, bb, 0,
            Running(emit_cfg_edges(prog, simple, env, bb, run.facts)))

RECURSIVE EmitBlocksFrom(_, _, _, _, _, _)
\* the loop over program.basic_blocks, from the k-th block on
EmitBlocksFrom(prog, lns, simple, env, k, run) ==
    IF k > Len(prog.basic_blocks) THEN run
    ELSE EmitBlocksFrom(prog, lns, simple, env, k + 1,
            emit_block_facts(prog, lns, simple, env, prog.basic_blocks[k], run))

\* FactEmitter::emit_facts on fresh Facts: a whole run at once
emit_facts(prog, lns, simple, env) ==
    EmitBlocksFrom(prog, lns, simple, env, 1, Running(DefaultFacts))

(***************************************************************************)
(* impl fmt::Display for Facts.  The text is a sequence of lines, a line a *)
(* sequence of the strings written to it; an empty line separates the      *)
(* nodes.                                                                  *)
(***************************************************************************)
\* characters from '0' to '~' in the order of their bytes
AsciiTable ==
    <<"0", "1", "2", "3", "4", "5", "6", "7", "8", "9", ":", ";", "<", "=",
      ">", "?", "@", "A", "B", "C", "D", "E", "F", "G", "H", "I", "J", "K",
      "L", "M", "N", "O", "P", "Q", "R", "S", "T", "U", "V", "W", "X", "Y",
      "Z", "[", "]", "^", "_", "a", "b", "c", "d", "e", "f", "g",
      "h", "i", "j", "k", "l", "m", "n", "o", "p", "q", "r", "s", "t", "u",
      "v", "w", "x", "y", "z", "{", "|", "}", "~">>

\* the rank of a character's byte
ByteRank(c) == CHOOSE i \in 1..Len(AsciiTable) : AsciiTable[i] = c

RECURSIVE StrCmp(_, _, _)
\* <str as Ord>::cmp, the order of the keys of BTreeMap<&str, _>: the
\* comparison of the bytes from the k-th on
StrCmp(a, b, k) ==
    IF k > Len(a) /\ k > Len(b) THEN "Equal"
    ELSE IF k > Len(a) THEN "Less"
    ELSE IF k > Len(b) THEN "Greater"
    ELSE IF ByteRank(a[k]) < ByteRank(b[k]) THEN "Less"
    ELSE IF ByteRank(a[k]) > ByteRank(b[k]) THEN "Greater"
    ELSE StrCmp(a, b, k + 1)

\* a variant of BTreeEntryOrDefault that keeps the keys in the order of
\* their insertion
BTreeEntryOrDefault_unordered(map, key) ==
    IF \E k \in 1..Len(map) : map[k].key = key THEN map
    ELSE Append(map, [key |-> key, value |-> <<>>])

\* facts_per_node.entry(key).or_default(): the map, whose entries are kept
\* in the order of their keys
BTreeEntryOrDefault(map, key) ==
    IF \E k \in 1..Len(map) : map[k].key = key THEN map
    ELSE SelectSeq(map, LAMBDA e : StrCmp(e.key, key, 1) = "Less")
         \o <<[key |-> key, value |-> <<>>]>>
         \o SelectSeq(map, LAMBDA e : StrCmp(e.key, key, 1) = "Greater")

\* .push(line) on the entry of key
PushLine(map, key, line) ==
    [k \in 1..Len(map) |->
        IF map[k].key = key THEN [map[k] EXCEPT !.value = Append(@, line)]
        ELSE map[k]]

\* facts_per_node.entry(key).or_default().push(line)
BTreePush(map, key, line) == PushLine(BTreeEntryOrDefault(map, key), key, line)

RECURSIVE IndexEdges_nothing(_, _, _)
\* a variant of IndexEdges that creates no entry for the nodes of the edges
IndexEdges_nothing(cfg_edge, k, map) == map

RECURSIVE IndexEdges(_, _, _)
\* "ensure nodes present in CFG edges are created empty", from the k-th
\* edge on
IndexEdges(cfg_edge, k, map) ==
    IF k > Len(cfg_edge) THEN map
    ELSE IndexEdges(cfg_edge, k + 1,
            BTreeEntryOrDefault(BTreeEntryOrDefault(map, cfg_edge[k][1]),
                                cfg_edge[k][2]))

RECURSIVE IndexOriginFacts(_, _, _, _)
\* the loop over an (Origin, Node) relation, from its k-th fact on:
\* format!("<relation>({})", origin.0)
IndexOriginFacts(relation, name, k, map) ==
    IF k > Len(relation) THEN map
    ELSE IndexOriginFacts(relation, name, k + 1,
            BTreePush(map, relation[k][2],
                      <<"\t", name, "(", relation[k][1], ")">>))

RECURSIVE IndexSubsets(_, _, _)
\* the loop over introduce_subset, from its k-th fact on
IndexSubsets(relation, k, map) ==
    IF k > Len(relation) THEN map
    ELSE IndexSubsets(relation, k + 1,
            BTreePush(map, relation[k][3],
                      <<"\t", "introduce_subset", "(", relation[k][1], ", ",
                        relation[k][2], ")">>))

\* "Display the facts in the operational order described in the datalog
\* rules": the facts grouped per node
facts_per_node(f) ==
    IndexSubsets(f.introduce_subset, 1,
      IndexOriginFacts(f.clear_origin, "clear_origin", 1,
        IndexOriginFacts(f.invalidate_origin, "invalidate_origin", 1,
          IndexOriginFacts(f.access_origin, "access_origin", 1,
            IndexEdges(f.cfg_edge, 1, <<>>)))))

\* node_text.iter().find_map(..).unwrap_or("(pass)")
NodeTextOf(node_text, node) ==
    IF \E k \in 1..Len(node_text) : node_text[k][2] = node
    THEN node_text[CHOOSE k \in 1..Len(node_text) :
                      /\ node_text[k][2] = node
                      /\ \A j \in 1..(k - 1) : node_text[j][2] /= node][1]
    ELSE <<"(pass)">>

\* "{}: {:?} {{": the node, then its text between quotes
HeaderLine(node, text) == node \o <<":", " ", "\"">> \o text \o <<"\"", " ", "{">>

RECURSIVE GotoTargets(_, _, _)
\* write!(f, " {}", succ.0) for the edges leaving node, from the k-th edge on
GotoTargets(cfg_edge, node, k) ==
    IF k > Len(cfg_edge) THEN <<>>
    ELSE (IF cfg_edge[k][1] = node THEN <<" ">> \o cfg_edge[k][2] ELSE <<>>)
         \o GotoTargets(cfg_edge, node, k + 1)

\* the lines of one node: header, facts, goto and the closing brace
DisplayNode(f, entry) ==
    <<HeaderLine(entry.key, NodeTextOf(f.node_text, entry.key))>>
    \o entry.value
    \o <<<<"\tgoto">> \o GotoTargets(f.cfg_edge, entry.key, 1), <<"}">>>>

RECURSIVE DisplayNodes(_, _, _)
\* the loop over facts_per_node, from the entry at node_idx (0-based) on
DisplayNodes(f, map, node_idx) ==
    IF node_idx >= Len(map) THEN <<>>
    ELSE (IF node_idx /= 0 THEN <<<<>>>> ELSE <<>>)
         \o DisplayNode(f, map[node_idx + 1])
         \o DisplayNodes(f, map, node_idx + 1)

\* fmt: the text of the facts
Display(f) == DisplayNodes(f, facts_per_node(f), 0)

(***************************************************************************)
(* The programs the emitter is run on.                                     *)
(***************************************************************************)
StructDecl(n, gs, fs) == [name |-> n, generic_decls |-> gs, field_decls |-> fs]

VariableDecl(n, t) == [name |-> n, ty |-> t]

\* struct Pair<'a, 'b> { x: &'a i32, y: &'b i32 }
\* struct Box<T> { v: T }
\* struct T { }
\* struct Two<A, B> { a: A, b: B }
\* struct Mix<'a, T, 'b> { }
StructDecls ==
    << StructDecl("Pair", <<GenericOrigin("'a"), GenericOrigin("'b")>>,
                  <<VariableDecl("x", Ref("'a", I32)),
                    VariableDecl("y", Ref("'b", I32))>>),
       StructDecl("Box", <<GenericTy("T")>>,
                  <<VariableDecl("v", Struct("T", <<>>))>>),
       StructDecl("T", <<>>, <<>>),
       StructDecl("Two", <<GenericTy("A"), GenericTy("B")>>,
                  <<VariableDecl("a", Struct("A", <<>>)),
                    VariableDecl("b", Struct("B", <<>>))>>),
       StructDecl("Mix", <<GenericOrigin("'a"), GenericTy("T"), GenericOrigin("'b")>>,
                  <<>>) >>

TyT == Struct("T", <<>>)

TyBox(o) == Struct("Box", <<ParamTy(Ref(o, I32))>>)

Variables ==
    << VariableDecl(<<"x">>, I32),
       VariableDecl(<<"y">>, I32),
       VariableDecl(<<"t">>, TyT),
       VariableDecl(<<"u">>, RefMut("'u", TyT)),
       VariableDecl(<<"v">>, RefMut("'v", TyT)),
       VariableDecl(<<"p">>, Struct("Pair", <<ParamOrigin("'a0"), ParamOrigin("'b0")>>)),
       VariableDecl(<<"r">>, Ref("'r", I32)),
       VariableDecl(<<"s">>, Ref("'s", I32)),
       VariableDecl(<<"b">>, TyBox("'b")),
       VariableDecl(<<"c">>, TyBox("'c")),
       VariableDecl(<<"w">>, Struct("Two", <<ParamTy(I32), ParamTy(Ref("'q", I32))>>)),
       VariableDecl(<<"k">>, Struct("Missing", <<>>)),
       VariableDecl(<<"z">>, Struct("Mix", <<ParamOrigin("'m"), ParamTy(Ref("'n", I32)),
                                            ParamOrigin("'o")>>)),
       VariableDecl(<<"d">>, RefMut("'d", TyBox("'e"))),
       VariableDecl(<<"g">>, Ref("'g", TyBox("'h"))),
       VariableDecl(<<"m">>, Struct("Box", <<ParamTy(RefMut("'m1", TyBox("'m2")))>>)),
       VariableDecl(<<"n">>, Struct("Box", <<ParamTy(RefMut("'n1", TyBox("'n2")))>>)) >>

Var(n) == Place(<<n>>, <<>>)

Field(n, f) == Place(<<n>>, <<f>>)

S_x_22 == Assign(Var("x"), Number(22), "x = 22")

S_r_bor_x == Assign(Var("r"), Access(Borrow("'L"), Var("x")), "r = &'L x")

S_y_copy_x == Assign(Var("y"), Access(Copy, Var("x")), "y = copy x")

S_u_mut_t_L == Assign(Var("u"), Access(BorrowMut("'L"), Var("t")), "u = &'L mut t")

S_u_mut_t_M == Assign(Var("u"), Access(BorrowMut("'M"), Var("t")), "u = &'M mut t")

S_r_copy_px == Assign(Var("r"), Access(Copy, Field("p", "x")), "r = copy p.x")

S_r_copy_bv == Assign(Var("r"), Access(Copy, Field("b", "v")), "r = copy b.v")

S_mut_px == ExprStmt(Access(BorrowMut("'M"), Field("p", "x")), "&'M mut p.x")

S_t_call == Assign(Var("t"), Call("g", <<Access(BorrowMut("'N"), Var("t"))>>),
                   "t = g(&'N mut t)")

S_call_nested ==
    ExprStmt(Call("f", << Call("g", <<Access(Borrow("'N"), Var("x"))>>),
                         Access(BorrowMut("'K"), Var("t")) >>),
             "f(g(&'N x), &'K mut t)")

S_y_copy_w == Assign(Var("y"), Access(Copy, Var("w")), "y = copy w")

S_r_22 == Assign(Var("r"), Number(22), "r = 22")

S_x_copy_r == Assign(Var("x"), Access(Copy, Var("r")), "x = copy r")

S_x_bor_y == Assign(Var("x"), Access(Borrow("'L"), Var("y")), "x = &'L y")

S_u_move_v == Assign(Var("u"), Access(Move, Var("v")), "u = move v")

S_b_move_c == Assign(Var("b"), Access(Move, Var("c")), "b = move c")

S_v_call == Assign(Var("v"), Call("f", <<Access(Move, Var("u"))>>), "v = f(move u)")

S_zz_22 == Assign(Var("zz"), Number(22), "zz = 22")

\* a place whose base is the dereference of the variable n
Deref(n, fs) == Place(<<"*", n>>, fs)

S_v_mut_deref_u ==
    Assign(Var("v"), Access(BorrowMut("'L"), Deref("u", <<>>)), "v = &'L mut *u")

S_r_copy_deref_bv ==
    Assign(Var("r"), Access(Copy, Deref("b", <<"v">>)), "r = copy *b.v")

S_deref_u_move_v ==
    Assign(Deref("u", <<>>), Access(Move, Var("v")), "*u = move v")

S_copy_deref_x == ExprStmt(Access(Copy, Deref("x", <<>>)), "copy *x")

S_bv_copy_r == Assign(Field("b", "v"), Access(Copy, Var("r")), "b.v = copy r")

S_bor_zz == ExprStmt(Access(Borrow("'L"), Var("zz")), "&'L zz")

S_y_copy_pz == Assign(Var("y"), Access(Copy, Field("p", "z")), "y = copy p.z")

S_y_copy_xf == Assign(Var("y"), Access(Copy, Field("x", "f")), "y = copy x.f")

S_y_copy_kf == Assign(Var("y"), Access(Copy, Field("k", "f")), "y = copy k.f")

S_mut_u == ExprStmt(Access(BorrowMut("'K"), Var("u")), "&'K mut u")

S_copy_z == ExprStmt(Access(Copy, Var("z")), "copy z")

S_d_mut_b == Assign(Var("d"), Access(BorrowMut("'L"), Var("b")), "d = &'L mut b")

S_g_bor_b == Assign(Var("g"), Access(Borrow("'L"), Var("b")), "g = &'L b")

S_m_move_n == Assign(Var("m"), Access(Move, Var("n")), "m = move n")

\* statements about borrows, writes and the loans they invalidate
LoanStatements ==
    { S_x_22, S_r_bor_x, S_u_mut_t_L, S_u_mut_t_M, S_t_call, S_call_nested,
      S_x_bor_y, S_mut_px, S_mut_u, S_u_move_v }

\* statements that read places, through fields and generic structs
ReadStatements ==
    { S_y_copy_x, S_r_copy_px, S_r_copy_bv, S_y_copy_w, S_r_22, S_x_copy_r,
      S_b_move_c, S_v_call, S_bv_copy_r, S_copy_z, S_r_bor_x }

\* statements over places that do not resolve, next to one that does
ErrorStatements ==
    { S_zz_22, S_bor_zz, S_y_copy_pz, S_y_copy_xf, S_y_copy_kf, S_x_22 }

\* statements that relate struct parameters under each variance
VarianceStatements ==
    { S_d_mut_b, S_g_bor_b, S_m_move_n, S_b_move_c, S_u_move_v }

\* statements over dereferenced places, next to ones over the places
\* themselves
DerefStatements ==
    { S_v_mut_deref_u, S_r_copy_deref_bv, S_deref_u_move_v, S_copy_deref_x,
      S_mut_u, S_r_copy_bv, S_u_move_v }

StatementGroups ==
    { LoanStatements, ReadStatements, ErrorStatements, VarianceStatements,
      DerefStatements }

Statements == UNION StatementGroups

BasicBlock(n, stmts, succs) ==
    [name |-> n, statements |-> stmts, successors |-> succs]

Program(blocks) ==
    [struct_decls |-> StructDecls, variables |-> Variables,
     basic_blocks |-> blocks]

\* "bb0", "bb1", ...
BlockName(k) == <<"b", "b">> \o FormatUsize(k)

\* one block of the given statements, without successors
StmtProgram(stmts) == Program(<<BasicBlock(BlockName(0), stmts, <<>>)>>)

\* the statements of the programs whose control-flow graph is varied: a
\* shared borrow of x and a write to x, in turn
CfgStatement(j) == IF j % 2 = 1 THEN S_r_bor_x ELSE S_x_22

\* the successor lists of block k (0-based) among n blocks: none, the next
\* block (cyclically), or the next and the first
CfgSuccessors(k, n) ==
    { <<>>, <<BlockName((k + 1) % n)>>, <<BlockName((k + 1) % n), BlockName(0)>> }

RECURSIVE SumUpTo(_, _)
SumUpTo(counts, k) == IF k = 0 THEN 0 ELSE counts[k] + SumUpTo(counts, k - 1)

\* n blocks, the k-th with counts[k] statements and the successors succs[k]
CfgProgram(n, counts, succs) ==
    Program([k \in 1..n |->
        BasicBlock(BlockName(k - 1),
                   [j \in 1..counts[k] |-> CfgStatement(SumUpTo(counts, k - 1) + j)],
                   succs[k])])

\* The programs of a run: one block of up to MaxStmts statements of one
\* group of the statement universe, or up to MaxCfgBlocks blocks holding up to MaxCfgStmts
\* statements in all, with varied successors.
IsInput(prog) ==
    \/ \E group \in StatementGroups :
          \E k \in 0..MaxStmts : \E stmts \in [1..k -> group] :
             prog = StmtProgram(stmts)
    \/ \E n \in 0..MaxCfgBlocks : \E counts \in [1..n -> 0..MaxCfgStmts] :
          /\ SumUpTo(counts, n) <= MaxCfgStmts
          /\ \E succs \in [1..n -> UNION {CfgSuccessors(k - 1, n) : k \in 1..n}] :
                /\ \A k \in 1..n : succs[k] \in CfgSuccessors(k - 1, n)
                /\ prog = CfgProgram(n, counts, succs)

(***************************************************************************)
(* The run: emit_facts(input) builds the emitter (FactEmitter::new), runs  *)
(* FactEmitter::emit_facts over the blocks and returns the Facts.          *)
(***************************************************************************)
Init ==
    /\ IsInput(program)
    /\ simple_node_names \in BOOLEAN
    /\ env_SIMPLE_NODES \in BOOLEAN
    /\ loans \in HashMapLayouts(CollectLoans(program.basic_blocks, 0, 0, <<>>))
    /\ facts = DefaultFacts
    /\ pc = "block"
    /\ block_idx = 0
    /\ stmt_idx = 0
    /\ output = None
    /\ rendered = None

CurrentBlock == program.basic_blocks[block_idx + 1]

\* emit_block_facts begins: the block's CFG edges
EmitCfgEdges ==
    /\ pc = "block"
    /\ block_idx < Len(program.basic_blocks)
    /\ facts' = emit_cfg_edges(program, simple_node_names, env_SIMPLE_NODES,
                               CurrentBlock, facts)
    /\ pc' = "stmt"
    /\ stmt_idx' = 0
    /\ UNCHANGED <<program, simple_node_names, env_SIMPLE_NODES, loans,
                   block_idx, output, rendered>>

\* the loop goes on to the next statement, or the emitter has panicked
StatementDone(run) ==
    /\ facts' = run.facts
    /\ IF run.ok
       THEN pc' = "stmt" /\ stmt_idx' = stmt_idx + 1
       ELSE pc' = "panic" /\ stmt_idx' = stmt_idx

\* one iteration of the statement loop
EmitStatement(tag) ==
    /\ pc = "stmt"
    /\ stmt_idx < Len(CurrentBlock.statements)
    /\ CurrentBlock.statements[stmt_idx + 1].tag = tag
    /\ StatementDone(emit_statement_facts(program, loans, simple_node_names,
                                          env_SIMPLE_NODES, CurrentBlock,
                                          stmt_idx, facts))
    /\ UNCHANGED <<program, simple_node_names, env_SIMPLE_NODES, loans,
                   block_idx, output, rendered>>

EmitAssign == EmitStatement("Assign")

EmitExpr == EmitStatement("Expr")

\* the statement loop ends: on to the next block
EndBlock ==
    /\ pc = "stmt"
    /\ stmt_idx = Len(CurrentBlock.statements)
    /\ pc' = "block"
    /\ block_idx' = block_idx + 1
    /\ stmt_idx' = 0
    /\ UNCHANGED <<program, simple_node_names, env_SIMPLE_NODES, loans,
                   facts, output, rendered>>

\* the block loop ends: emit_facts returns Ok(facts)
Return ==
    /\ pc = "block"
    /\ block_idx = Len(program.basic_blocks)
    /\ output' = Some(facts)
    /\ pc' = "done"
    /\ UNCHANGED <<program, simple_node_names, env_SIMPLE_NODES, loans,
                   facts, block_idx, stmt_idx, rendered>>

\* the returned facts are displayed (to_string)
to_string ==
    /\ pc = "done"
    /\ rendered' = Some(Display(output.val))
    /\ pc' = "rendered"
    /\ UNCHANGED <<program, simple_node_names, env_SIMPLE_NODES, loans,
                   facts, block_idx, stmt_idx, output>>

Next ==
    EmitCfgEdges \/ EmitAssign \/ EmitExpr \/ EndBlock \/ Return \/ to_string

Spec == Init /\ [][Next]_vars

(***************************************************************************)
(* Vocabulary of the properties.                                           *)
(***************************************************************************)
Blocks == program.basic_blocks

\* the statement at index i (0-based) of block b (0-based)
StatementAt(b, i) == Blocks[b + 1].statements[i + 1]

Positions ==
    {<<b, i>> \in (0..(Len(Blocks) - 1)) \X (0..Max(MaxStmts, MaxCfgStmts)) :
        i < Len(Blocks[b + 1].statements)}

\* the statements whose loop iteration has completed without a panic
Processed ==
    {q \in Positions :
        \/ q[1] < block_idx
        \/ q[1] = block_idx /\ pc \in {"stmt", "panic"} /\ q[2] < stmt_idx}

\* the blocks whose CFG edges have been emitted
StartedBlocks ==
    {b \in 0..(Len(Blocks) - 1) :
        b < block_idx \/ (b = block_idx /\ pc \in {"stmt", "panic"})}

NodeOf(b, i) ==
    node_at(program, simple_node_names, env_SIMPLE_NODES, Blocks[b + 1].name, i)

\* the origins of the facts of an (Origin, Node) relation at a node, in order
OriginsAt(relation, node) ==
    LET at == SelectSeq(facts[relation], LAMBDA t : t[2] = node)
    IN  [k \in 1..Len(at) |-> at[k][1]]

\* the (source, target) pairs of the introduce_subset facts at a node
SubsetsAt(node) ==
    LET at == SelectSeq(facts.introduce_subset, LAMBDA t : t[3] = node)
    IN  [k \in 1..Len(at) |-> <<at[k][1], at[k][2]>>]

RECURSIVE BorrowOrigins(_)
RECURSIVE BorrowOriginsOfArgs(_, _)
\* the origins of the Borrow and BorrowMut subexpressions, in evaluation order
BorrowOrigins(expr) ==
    CASE expr.tag = "Access" ->
            IF expr.kind.tag \in {"Borrow", "BorrowMut"}
            THEN <<expr.kind.origin>> ELSE <<>>
      [] expr.tag = "Call" -> BorrowOriginsOfArgs(expr.arguments, 1)
      [] OTHER -> <<>>

BorrowOriginsOfArgs(args, k) ==
    IF k > Len(args) THEN <<>>
    ELSE BorrowOrigins(args[k]) \o BorrowOriginsOfArgs(args, k + 1)

RECURSIVE BorrowMutPlaces(_)
RECURSIVE BorrowMutPlacesOfArgs(_, _)
\* the places of the BorrowMut subexpressions, in evaluation order
BorrowMutPlaces(expr) ==
    CASE expr.tag = "Access" ->
            IF expr.kind.tag = "BorrowMut" THEN <<expr.place>> ELSE <<>>
      [] expr.tag = "Call" -> BorrowMutPlacesOfArgs(expr.arguments, 1)
      [] OTHER -> <<>>

BorrowMutPlacesOfArgs(args, k) ==
    IF k > Len(args) THEN <<>>
    ELSE BorrowMutPlaces(args[k]) \o BorrowMutPlacesOfArgs(args, k + 1)

\* how often x occurs in a sequence
Count(seq, x) == Cardinality({k \in 1..Len(seq) : seq[k] = x})

\* the number of loans the index records for a place
LoanCount(place) == Len(LoanOrigins(loans, place))

RECURSIVE SumLoanCounts(_, _)
SumLoanCounts(places, k) ==
    IF k > Len(places) THEN 0
    ELSE LoanCount(places[k]) + SumLoanCounts(places, k + 1)

LhsTy(s) == ty_of_place(program, s.place).ty

LhsOrigins(s) == origins_of_place(program, s.place).origins

(***************************************************************************)
(* C1  Clear-on-assign coverage.                                           *)
(***************************************************************************)
\* C1 as stated: at the node of every processed Assign(place, expr), the
\* clear_origin facts are exactly origins_of(place), in order, whatever the
\* shape of expr.
C1_ClearEqualsLhsOrigins ==
    \A q \in Processed :
        LET s == StatementAt(q[1], q[2]) IN
        s.tag = "Assign" =>
            OriginsAt("clear_origin", NodeOf(q[1], q[2])) = LhsOrigins(s)

\* C1 amended: at the node of every processed Assign(place, expr), the
\* clear_origin facts are origins_of(place), in traversal order and with
\* duplicates, followed by the origins of the Borrow and BorrowMut
\* subexpressions of expr in evaluation order; they are exactly
\* origins_of(place) when expr holds no borrow.
C1_ClearOnAssign ==
    \A q \in Processed :
        LET s == StatementAt(q[1], q[2]) IN
        s.tag = "Assign" =>
            OriginsAt("clear_origin", NodeOf(q[1], q[2]))
                = LhsOrigins(s) \o BorrowOrigins(s.expr)

\* an assignment to b.v, whose origins_of repeats 'b, and an assignment whose
\* right-hand side is a borrow have both been processed
C1_Witness ==
    /\ pc = "done"
    /\ \E q \in Processed : StatementAt(q[1], q[2]) = S_bv_copy_r
    /\ \E q \in Processed :
          /\ StatementAt(q[1], q[2]) = S_r_bor_x
          /\ OriginsAt("clear_origin", NodeOf(q[1], q[2])) = <<"'r", "'L">>

(***************************************************************************)
(* C2  Struct field scenario (S4).                                         *)
(***************************************************************************)
\* C2 as stated: with p: Pair<'a0,'b0> and r: &'r i32, the facts at the node
\* of r = copy p.x are one clear_origin('r), one access_origin('a0), one
\* introduce_subset('a0, 'r) and nothing else.
C2_StructFieldScenario ==
    \A q \in Processed :
        StatementAt(q[1], q[2]) = S_r_copy_px =>
            LET node == NodeOf(q[1], q[2]) IN
            /\ OriginsAt("clear_origin", node) = <<"'r">>
            /\ OriginsAt("access_origin", node) = <<"'a0">>
            /\ SubsetsAt(node) = << <<"'a0", "'r">> >>
            /\ OriginsAt("invalidate_origin", node) = <<>>

(***************************************************************************)
(* C3  Mutable aliasing scenario (S6).                                     *)
(***************************************************************************)
S6Program == StmtProgram(<<S_u_mut_t_L, S_u_mut_t_M>>)

\* the second assignment of the S6 program has been processed
S6SecondDone == program = S6Program /\ <<0, 1>> \in Processed

\* C3 as stated: at the second assignment node of the S6 program there is no
\* access_origin, invalidate_origin('L) is the only invalidation, the clears
\* are 'u then 'M and the only subset is ('M, 'u).
C3_OnlyEarlierLoanInvalidated ==
    S6SecondDone =>
        LET node == NodeOf(0, 1) IN
        /\ OriginsAt("access_origin", node) = <<>>
        /\ OriginsAt("invalidate_origin", node) = <<"'L">>
        /\ OriginsAt("clear_origin", node) = <<"'u", "'M">>
        /\ SubsetsAt(node) = << <<"'M", "'u">> >>

\* C3 amended: at the second assignment node of the S6 program there is no
\* access_origin, the invalidations are invalidate_origin('L) then
\* invalidate_origin('M) (every indexed loan of t, the one issued by this
\* very borrow included), the clears are 'u then 'M and the only subset is
\* ('M, 'u).
C3_MutableAliasing ==
    S6SecondDone =>
        LET node == NodeOf(0, 1) IN
        /\ OriginsAt("access_origin", node) = <<>>
        /\ OriginsAt("invalidate_origin", node) = <<"'L", "'M">>
        /\ OriginsAt("clear_origin", node) = <<"'u", "'M">>
        /\ SubsetsAt(node) = << <<"'M", "'u">> >>

C3_Witness == S6SecondDone /\ pc = "done"

(***************************************************************************)
(* C4  Invalidate-on-non-ref-write.                                        *)
(***************************************************************************)
\* the places written at a statement's node: the assigned place when its type
\* is not a reference, then the places of the BorrowMut subexpressions
WrittenPlaces(s) ==
    (IF s.tag = "Assign" /\ ~is_ref(LhsTy(s)) THEN <<s.place>> ELSE <<>>)
        \o BorrowMutPlaces(s.expr)

\* C4 as stated: at every processed node whose statement assigns to a
\* complete place of non-reference type, or contains a BorrowMut of a
\* complete place, the number of invalidate_origin facts equals the number of
\* loans the index records for that place.
C4_InvalidationsEqualLoansOfPlace ==
    \A q \in Processed :
        LET s == StatementAt(q[1], q[2])
            written == WrittenPlaces(s)
        IN  \A k \in 1..Len(written) :
                written[k].fields = <<>> =>
                    Len(OriginsAt("invalidate_origin", NodeOf(q[1], q[2])))
                        = LoanCount(written[k])

\* C4 amended: at every processed node, the number of invalidate_origin facts
\* equals the sum, over the writes at that node (the assignment when the LHS
\* type is not a reference, and each BorrowMut subexpression), of the number
\* of loans the index records for the written place; it equals the number of
\* loans of one place only when the node holds a single write.
C4_InvalidateOnWrite ==
    \A q \in Processed :
        LET s == StatementAt(q[1], q[2]) IN
        Len(OriginsAt("invalidate_origin", NodeOf(q[1], q[2])))
            = SumLoanCounts(WrittenPlaces(s), 1)

\* t = g(&'N mut t) has been processed while t has an indexed loan: two
\* writes of t at one node
C4_Witness ==
    /\ pc = "done"
    /\ \E q \in Processed :
          /\ StatementAt(q[1], q[2]) = S_t_call
          /\ LoanCount(Var("t")) = 1
          /\ Len(OriginsAt("invalidate_origin", NodeOf(q[1], q[2]))) = 2

(***************************************************************************)
(* C5  The loan index holds only complete places.                          *)
(***************************************************************************)
\* C5 as stated: every key of the loan index has an empty fields list, and a
\* top-level borrow of a place with fields causes no invalidate_origin fact.
C5_LoanKeysAreComplete ==
    /\ \A k \in 1..Len(loans) : loans[k].key.fields = <<>>
    /\ \A q \in Processed :
          LET s == StatementAt(q[1], q[2]) IN
          (/\ s.tag = "Expr"
           /\ s.expr.tag = "Access"
           /\ s.expr.kind.tag \in {"Borrow", "BorrowMut"}
           /\ s.expr.place.fields /= <<>>)
              => OriginsAt("invalidate_origin", NodeOf(q[1], q[2])) = <<>>

(***************************************************************************)
(* C6  Unprocessed-origin assertion.                                       *)
(***************************************************************************)
RECURSIVE AllOrigins(_)
RECURSIVE AllOriginsOfParams(_, _)
\* every origin anywhere in a type's tree
AllOrigins(ty) ==
    CASE ty.tag \in {"Ref", "RefMut"} -> <<ty.origin>> \o AllOrigins(ty.ty)
      [] ty.tag = "Struct" -> AllOriginsOfParams(ty.parameters, 1)
      [] OTHER -> <<>>

AllOriginsOfParams(ps, k) ==
    IF k > Len(ps) THEN <<>>
    ELSE (IF ps[k].tag = "Origin" THEN <<ps[k].origin>> ELSE AllOrigins(ps[k].ty))
         \o AllOriginsOfParams(ps, k + 1)

AccessKindOf(expr) == IF expr.tag = "Access" THEN expr.kind.tag ELSE "none"

\* no reference, struct or call row of subset introduction matches
ReachesFallthrough(lhs_ty, expr) ==
    ~ \/ lhs_ty.tag = "Ref" /\ AccessKindOf(expr) \in {"Borrow", "Copy", "Move"}
      \/ lhs_ty.tag = "RefMut" /\ AccessKindOf(expr) \in {"BorrowMut", "Copy", "Move"}
      \/ lhs_ty.tag = "Struct" /\ AccessKindOf(expr) \in {"Copy", "Move"}
      \/ expr.tag = "Call"

\* the LHS type or the RHS expression carries an origin
CarriesOrigin(lhs_ty, expr) ==
    \/ AllOrigins(lhs_ty) /= <<>>
    \/ AccessKindOf(expr) \in {"Borrow", "BorrowMut"}
    \/ /\ AccessKindOf(expr) \in {"Copy", "Move"}
       /\ ty_of_place(program, expr.place).ok
       /\ AllOrigins(ty_of_place(program, expr.place).ty) /= <<>>

\* C6 as stated: an assignment that reaches the fallthrough branch of subset
\* introduction while its LHS type or RHS expression carries an origin
\* anywhere in its type tree panics, so it is never processed to completion.
C6_UnprocessedOriginsPanic ==
    \A q \in Processed :
        LET s == StatementAt(q[1], q[2]) IN
        (s.tag = "Assign" /\ ReachesFallthrough(LhsTy(s), s.expr))
            => ~CarriesOrigin(LhsTy(s), s.expr)

(***************************************************************************)
(* C7  Clear-on-borrow.                                                    *)
(***************************************************************************)
\* C7: at the node of every processed statement, each origin o is cleared
\* once per Borrow(o) or BorrowMut(o) subexpression of the statement (at any
\* call depth), on top of the clears of the assigned place's own origins.
C7_ClearOnBorrow ==
    \A q \in Processed :
        LET s == StatementAt(q[1], q[2])
            borrows == BorrowOrigins(s.expr)
            lhs == IF s.tag = "Assign" THEN LhsOrigins(s) ELSE <<>>
            cleared == OriginsAt("clear_origin", NodeOf(q[1], q[2]))
        IN  /\ Len(cleared) = Len(lhs) + Len(borrows)
            /\ \A k \in 1..Len(borrows) :
                  Count(cleared, borrows[k])
                      = Count(borrows, borrows[k]) + Count(lhs, borrows[k])

\* the standalone call f(g(&'N x), &'K mut t) has been processed: a borrow
\* nested two calls deep and a mutable borrow as a direct argument
C7_Witness ==
    /\ pc = "done"
    /\ \E q \in Processed :
          /\ StatementAt(q[1], q[2]) = S_call_nested
          /\ OriginsAt("clear_origin", NodeOf(q[1], q[2])) = <<"'N", "'K">>

(***************************************************************************)
(* C8  CFG completeness.                                                   *)
(***************************************************************************)
\* the edges the claim lists for block b (0-based)
ExpectedEdges(b) ==
    LET bb == Blocks[b + 1]
        n == Len(bb.statements)
    IN  [i \in 1..(n - 1) |-> <<NodeOf(b, i - 1), NodeOf(b, i)>>]
        \o [k \in 1..Len(bb.successors) |->
              <<NodeOf(b, Max(n, 1) - 1),
                node_at(program, simple_node_names, env_SIMPLE_NODES,
                        bb.successors[k], 0)>>]

RECURSIVE ExpectedEdgesUpTo(_)
\* the edges of the blocks before block b, block after block
ExpectedEdgesUpTo(b) ==
    IF b = 0 THEN <<>> ELSE ExpectedEdgesUpTo(b - 1) \o ExpectedEdges(b - 1)

\* C8: the cfg_edge relation is, block after block, the max(n-1,0) edges
\* between consecutive statements followed by one edge per successor, in
\* declaration order, from node(name, max(n,1)-1) to node(s, 0).
C8_CfgCompleteness ==
    /\ facts.cfg_edge = ExpectedEdgesUpTo(Cardinality(StartedBlocks))
    /\ \A b \in StartedBlocks :
          LET bb == Blocks[b + 1] IN
          Len(ExpectedEdges(b))
              = Max(Len(bb.statements) - 1, 0) + Len(bb.successors)

\* a finished run over a program with an empty block that has successors and
\* a block of two statements or more with successors
C8_Witness ==
    /\ pc = "done"
    /\ \E b \in StartedBlocks :
          Blocks[b + 1].statements = <<>> /\ Len(Blocks[b + 1].successors) = 2
    /\ \E b \in StartedBlocks :
          Len(Blocks[b + 1].statements) >= 2 /\ Blocks[b + 1].successors /= <<>>

(***************************************************************************)
(* C9  Mode round-trip.                                                    *)
(***************************************************************************)
\* the nodes of the program: one per statement, one for an empty block
ValidNodes ==
    {<<b, i>> \in (0..(Len(Blocks) - 1)) \X (0..Max(MaxStmts, MaxCfgStmts)) :
        i < Max(Len(Blocks[b + 1].statements), 1)}

RECURSIVE SlotsBefore(_)
\* the sum over the blocks before block b of max(statement count, 1)
SlotsBefore(b) ==
    IF b = 0 THEN 0
    ELSE SlotsBefore(b - 1) + Max(Len(Blocks[b].statements), 1)

Alphabet ==
    <<"a", "b", "c", "d", "e", "f", "g", "h", "i", "j", "k", "l", "m",
      "n", "o", "p", "q", "r", "s", "t", "u", "v", "w", "x", "y", "z">>

\* the simple label the claim gives node (b, i)
SimpleLabel(b, i) == <<Alphabet[SlotsBefore(b) + i + 1]>>

DefaultLabel(b, i) == node_at(program, FALSE, FALSE, Blocks[b + 1].name, i)

\* the renaming of node labels: default label to simple label
Rename(label) ==
    LET q == CHOOSE q \in ValidNodes : DefaultLabel(q[1], q[2]) = label
    IN  SimpleLabel(q[1], q[2])

RenameFacts(f) ==
    [access_origin |->
        [k \in 1..Len(f.access_origin) |->
            <<f.access_origin[k][1], Rename(f.access_origin[k][2])>>],
     cfg_edge |->
        [k \in 1..Len(f.cfg_edge) |->
            <<Rename(f.cfg_edge[k][1]), Rename(f.cfg_edge[k][2])>>],
     clear_origin |->
        [k \in 1..Len(f.clear_origin) |->
            <<f.clear_origin[k][1], Rename(f.clear_origin[k][2])>>],
     introduce_subset |->
        [k \in 1..Len(f.introduce_subset) |->
            <<f.introduce_subset[k][1], f.introduce_subset[k][2],
              Rename(f.introduce_subset[k][3])>>],
     invalidate_origin |->
        [k \in 1..Len(f.invalidate_origin) |->
            <<f.invalidate_origin[k][1], Rename(f.invalidate_origin[k][2])>>],
     node_text |->
        [k \in 1..Len(f.node_text) |->
            <<f.node_text[k][1], Rename(f.node_text[k][2])>>]]

\* C9: the six relations returned by a run with simple_node_names = true are
\* those of the default-mode run on the same program with every node label
\* renamed, the renaming sending the label of (block, i) to the letter at
\* offset i + the sum over the preceding blocks of max(statement count, 1),
\* and being one-to-one on the program's nodes.
C9_ModeRoundTrip ==
    (pc = "done" /\ simple_node_names) =>
        /\ \A q1, q2 \in ValidNodes :
              /\ SimpleLabel(q1[1], q1[2]) = SimpleLabel(q2[1], q2[2]) => q1 = q2
              /\ DefaultLabel(q1[1], q1[2]) = DefaultLabel(q2[1], q2[2]) => q1 = q2
        /\ output = Some(RenameFacts(emit_facts(program, loans, FALSE, FALSE).facts))

\* a finished simple-mode run over three blocks, the second one empty, with
\* facts in the third
C9_Witness ==
    /\ pc = "done"
    /\ simple_node_names
    /\ Len(Blocks) = 3
    /\ Blocks[2].statements = <<>>
    /\ Len(Blocks[1].statements) = 2
    /\ Len(Blocks[3].statements) = 1
    /\ Blocks[3].successors /= <<>>
    /\ facts.clear_origin /= <<>>

(***************************************************************************)
(* C10  Determinism.                                                       *)
(***************************************************************************)
\* the loan index with its entries in the order of their insertion
InsertionOrderLoans == CollectLoans(Blocks, 0, 0, <<>>)

\* C10: whatever order the loan map lays its entries out in, a run ends as
\* the run on the same program and flags with the entries in insertion order
\* does: it panics when that one panics, and otherwise returns the same six
\* sequences of facts.
C10_Determinism ==
    LET reference == emit_facts(program, InsertionOrderLoans,
                                simple_node_names, env_SIMPLE_NODES)
    IN  /\ pc = "done" => reference.ok /\ output = Some(reference.facts)
        /\ pc = "panic" => ~reference.ok /\ facts = reference.facts

\* a finished run whose loan map lays out two entries against their
\* insertion order and that has emitted invalidations
C10_Witness ==
    /\ pc = "done"
    /\ Len(loans) = 2
    /\ loans /= InsertionOrderLoans
    /\ Len(facts.invalidate_origin) >= 2

(***************************************************************************)
(* C11  Structural errors abort with no partial output.                    *)
(***************************************************************************)
RECURSIVE PlacesOf(_)
RECURSIVE PlacesOfArgs(_, _)
\* the places an expression names, in evaluation order
PlacesOf(expr) ==
    CASE expr.tag = "Access" -> <<expr.place>>
      [] expr.tag = "Call" -> PlacesOfArgs(expr.arguments, 1)
      [] OTHER -> <<>>

PlacesOfArgs(args, k) ==
    IF k > Len(args) THEN <<>>
    ELSE PlacesOf(args[k]) \o PlacesOfArgs(args, k + 1)

\* the places a statement names: the assigned place, then those of its
\* expression
StatementPlaces(s) ==
    (IF s.tag = "Assign" THEN <<s.place>> ELSE <<>>) \o PlacesOf(s.expr)

\* the place's base names no declared variable, a type on its path names no
\* declared struct, a field of its path is not declared, or its field path
\* is applied to a type that is no struct
StructuralError(place) == ~ty_of_place(program, place).ok

HasStructuralError(s) ==
    \E k \in 1..Len(StatementPlaces(s)) : StructuralError(StatementPlaces(s)[k])

\* C11: a run on a program one of whose statements names a place with a
\* structural error (undeclared variable, undeclared struct, undeclared
\* field, field of a non-struct) never returns: it ends in a panic, and a
\* panicked run has produced no output.
C11_StructuralErrorsAbort ==
    /\ pc = "panic" => output = None
    /\ output /= None =>
          \A q \in Positions : ~HasStructuralError(StatementAt(q[1], q[2]))

(***************************************************************************)
(* The rendering, read back: its nodes, their labels, texts and lines.     *)
(***************************************************************************)
RECURSIVE SplitNodes(_, _, _)
\* the lines of each node of a text, whose nodes an empty line separates
SplitNodes(lines, k, current) ==
    IF k > Len(lines) THEN IF current = <<>> THEN <<>> ELSE <<current>>
    ELSE IF lines[k] = <<>>
         THEN <<current>> \o SplitNodes(lines, k + 1, <<>>)
         ELSE SplitNodes(lines, k + 1, Append(current, lines[k]))

RenderedNodes ==
    IF rendered = None THEN <<>> ELSE SplitNodes(rendered.val, 1, <<>>)

\* the label of a rendered node: its header up to the colon
LabelOf(lines) ==
    LET h == lines[1]
        colon == CHOOSE i \in 1..Len(h) :
                    h[i] = ":" /\ \A j \in 1..(i - 1) : h[j] /= ":"
    IN  SubSeq(h, 1, colon - 1)

\* the text of a rendered node: what its header quotes
TextOf(lines) == SubSeq(lines[1], Len(LabelOf(lines)) + 4, Len(lines[1]) - 3)

RenderedLabels == {LabelOf(RenderedNodes[k]) : k \in 1..Len(RenderedNodes)}

\* the lines of the facts of an (Origin, Node) relation at a node, in the
\* order of their emission
OriginLines(relation, node) ==
    LET at == SelectSeq(output.val[relation], LAMBDA t : t[2] = node)
    IN  [k \in 1..Len(at) |-> <<"\t", relation, "(", at[k][1], ")">>]

SubsetLines(node) ==
    LET at == SelectSeq(output.val.introduce_subset, LAMBDA t : t[3] = node)
    IN  [k \in 1..Len(at) |->
            <<"\t", "introduce_subset", "(", at[k][1], ", ", at[k][2], ")">>]

RECURSIVE SpaceBefore(_)
\* each label of a sequence after a space
SpaceBefore(labels) ==
    IF labels = <<>> THEN <<>>
    ELSE <<" ">> \o Head(labels) \o SpaceBefore(Tail(labels))

\* the goto line of a node: the targets of its cfg_edge facts, in the order
\* of their emission
GotoLine(node) ==
    LET at == SelectSeq(output.val.cfg_edge, LAMBDA t : t[1] = node)
    IN  <<"\tgoto">> \o SpaceBefore([k \in 1..Len(at) |-> at[k][2]])

(***************************************************************************)
(* C12  Rendering order.                                                   *)
(***************************************************************************)
\* C12: the rendering lists its nodes in strictly ascending order of their
\* labels (so each node once); under a node's header come its access_origin
\* facts, then its invalidate_origin, clear_origin and introduce_subset
\* facts, each group in emission order, then exactly one goto line with the
\* targets of the node's cfg_edge facts in emission order (none included),
\* then the closing brace.
C12_RenderingOrder ==
    pc = "rendered" =>
        /\ \A k \in 1..(Len(RenderedNodes) - 1) :
              StrCmp(LabelOf(RenderedNodes[k]), LabelOf(RenderedNodes[k + 1]), 1)
                 = "Less"
        /\ \A k \in 1..Len(RenderedNodes) :
              LET node == LabelOf(RenderedNodes[k]) IN
              Tail(RenderedNodes[k])
                 = OriginLines("access_origin", node)
                   \o OriginLines("invalidate_origin", node)
                   \o OriginLines("clear_origin", node)
                   \o SubsetLines(node)
                   \o <<GotoLine(node), <<"}">>>>

\* a rendering of three nodes whose first edge leaves a node that is not
\* the least, with a node that has two targets, a node that has none, and a
\* node with facts of two groups
C12_Witness ==
    /\ pc = "rendered"
    /\ Len(RenderedNodes) = 3
    /\ output.val.cfg_edge[1][1] /= LabelOf(RenderedNodes[1])
    /\ \E k \in 1..3 : Len(GotoLine(LabelOf(RenderedNodes[k]))) = 1
    /\ \E k \in 1..3 :
          Len(SelectSeq(output.val.cfg_edge,
                        LAMBDA t : t[1] = LabelOf(RenderedNodes[k]))) = 2
    /\ \E k \in 1..3 :
          /\ OriginLines("clear_origin", LabelOf(RenderedNodes[k])) /= <<>>
          /\ SubsetLines(LabelOf(RenderedNodes[k])) /= <<>>

(***************************************************************************)
(* C13  Pass nodes.                                                        *)
(***************************************************************************)
\* C13: every node that is an endpoint of a cfg_edge fact is rendered,
\* whether or not another fact names it, and the text of a rendered node is
\* "(pass)" exactly when no node_text fact exists for the node; otherwise it
\* is the text of that fact.
C13_PassNodes ==
    pc = "rendered" =>
        /\ \A k \in 1..Len(output.val.cfg_edge) :
              /\ output.val.cfg_edge[k][1] \in RenderedLabels
              /\ output.val.cfg_edge[k][2] \in RenderedLabels
        /\ \A k \in 1..Len(RenderedNodes) :
              LET node == LabelOf(RenderedNodes[k])
                  texts == SelectSeq(output.val.node_text, LAMBDA t : t[2] = node)
              IN  /\ TextOf(RenderedNodes[k]) = <<"(pass)">> <=> texts = <<>>
                  /\ texts /= <<>> => TextOf(RenderedNodes[k]) = texts[1][1]

\* a rendering with the node of an empty block that only a back edge
\* reaches, shown as "(pass)", next to a node with a statement's text
C13_Witness ==
    /\ pc = "rendered"
    /\ Len(Blocks) = 3
    /\ Blocks[1].statements = <<>>
    /\ Blocks[1].successors = <<>>
    /\ \E k \in 1..Len(RenderedNodes) :
          /\ LabelOf(RenderedNodes[k]) = NodeOf(0, 0)
          /\ TextOf(RenderedNodes[k]) = <<"(pass)">>
    /\ \E k \in 1..Len(RenderedNodes) : TextOf(RenderedNodes[k]) /= <<"(pass)">>

(***************************************************************************)
(* C14  Generic field substitution.                                        *)
(***************************************************************************)
\* the declarations of the struct a type names
DeclsOf(ty) ==
    {program.struct_decls[k] : k \in
        {j \in 1..Len(program.struct_decls) :
            program.struct_decls[j].name = ty.name}}

\* the field's declared type names the type parameter that decl declares
\* at position i (1-based), and no earlier one
NamesGeneric(decl, field, i) ==
    /\ field.ty.tag = "Struct"
    /\ decl.generic_decls[i].tag = "Ty"
    /\ decl.generic_decls[i].name = field.ty.name
    /\ \A j \in 1..(i - 1) :
          ~(decl.generic_decls[j].tag = "Ty"
            /\ decl.generic_decls[j].name = field.ty.name)

\* the statement at which the run panicked
PanickedAt(s) == pc = "panic" /\ StatementAt(block_idx, stmt_idx) = s

\* C14: between two blocks of any run, for every variable of a declared
\* struct type and every field whose
\* declared type names the struct's type parameter at position i, the place
\* variable.field resolves to the type argument at position i of the
\* variable's type; and r = copy b.v with b: Box<&'b i32>, r: &'r i32 is
\* processed without a panic and emits exactly the subset ('b, 'r) at its
\* node.
C14_GenericFieldSubstitution ==
    /\ \A k \in 1..Len(program.variables) :
          LET v == program.variables[k] IN
          pc = "block" /\ v.ty.tag = "Struct" =>
            \A decl \in DeclsOf(v.ty) :
              \A f \in 1..Len(decl.field_decls) :
                \A i \in 1..Len(decl.generic_decls) :
                  NamesGeneric(decl, decl.field_decls[f], i) =>
                    LET resolved ==
                          ty_of_place(program,
                                      Place(v.name, <<decl.field_decls[f].name>>))
                    IN  /\ resolved.ok
                        /\ v.ty.parameters[i].tag = "Ty"
                        /\ resolved.ty = v.ty.parameters[i].ty
    /\ ~PanickedAt(S_r_copy_bv)
    /\ \A q \in Processed :
          StatementAt(q[1], q[2]) = S_r_copy_bv =>
             SubsetsAt(NodeOf(q[1], q[2])) = << <<"'b", "'r">> >>

\* r = copy b.v has been processed as the second statement of a finished run
C14_Witness ==
    /\ pc = "done"
    /\ <<0, 1>> \in Processed
    /\ StatementAt(0, 1) = S_r_copy_bv

(***************************************************************************)
(* C15  Only mutable borrows write.                                        *)
(***************************************************************************)
RECURSIVE AccessesOf(_, _)
RECURSIVE AccessesOfArgs(_, _, _)
\* the Access subexpressions of an expression whose kind is among kinds, in
\* evaluation order
AccessesOf(expr, kinds) ==
    CASE expr.tag = "Access" ->
            IF expr.kind.tag \in kinds THEN <<expr>> ELSE <<>>
      [] expr.tag = "Call" -> AccessesOfArgs(expr.arguments, 1, kinds)
      [] OTHER -> <<>>

AccessesOfArgs(args, k, kinds) ==
    IF k > Len(args) THEN <<>>
    ELSE AccessesOf(args[k], kinds) \o AccessesOfArgs(args, k + 1, kinds)

RECURSIVE OriginsOfPlaces(_, _)
\* origins_of of the places of the accesses from the k-th on, one after
\* the other
OriginsOfPlaces(accesses, k) ==
    IF k > Len(accesses) THEN <<>>
    ELSE origins_of_place(program, accesses[k].place).origins
         \o OriginsOfPlaces(accesses, k + 1)

RECURSIVE LoansOfPlaces(_, _)
\* the origins of the loans the index records for the places of the
\* accesses from the k-th on, in the order of the index
LoansOfPlaces(accesses, k) ==
    IF k > Len(accesses) THEN <<>>
    ELSE LoanOrigins(loans, accesses[k].place) \o LoansOfPlaces(accesses, k + 1)

\* the invalidations of the assignment step itself
LhsInvalidations(s) ==
    IF s.tag = "Assign" /\ ~is_ref(LhsTy(s))
    THEN LoanOrigins(loans, s.place) ELSE <<>>

\* at every processed node the accesses are those of the mutable borrows,
\* copies and moves of the expression, and the invalidations those of the
\* assignment step and of the mutable borrows: a shared borrow adds none
WritesOfBorrows ==
    \A q \in Processed :
        LET s == StatementAt(q[1], q[2])
            node == NodeOf(q[1], q[2])
        IN  /\ OriginsAt("access_origin", node)
                  = OriginsOfPlaces(AccessesOf(s.expr, {"BorrowMut", "Copy", "Move"}), 1)
            /\ OriginsAt("invalidate_origin", node)
                  = LhsInvalidations(s)
                    \o LoansOfPlaces(AccessesOf(s.expr, {"BorrowMut"}), 1)

\* C15 as stated: a mutable borrow accesses every origin of its place and
\* invalidates every loan the index records for the place, in index order,
\* the loan of this very borrow among them, wherever the borrow stands; a
\* shared borrow accesses and invalidates nothing.
C15_OwnLoanAlwaysInvalidated ==
    /\ WritesOfBorrows
    /\ \A q \in Processed :
          LET muts == AccessesOf(StatementAt(q[1], q[2]).expr, {"BorrowMut"})
          IN  \A k \in 1..Len(muts) :
                 Count(LoanOrigins(loans, muts[k].place), muts[k].kind.origin) >= 1

\* C15 amended: a mutable borrow accesses every origin of its place and
\* invalidates every loan the index records for the place, in index order;
\* the loan of this very borrow is among them when the borrow is the whole
\* expression of its statement (a borrow in a call argument is not in the
\* index); a shared borrow accesses and invalidates nothing.
C15_OnlyMutableBorrowsWrite ==
    /\ WritesOfBorrows
    /\ \A q \in Processed :
          LET expr == StatementAt(q[1], q[2]).expr IN
          expr.tag = "Access" /\ expr.kind.tag = "BorrowMut" =>
             /\ Count(LoanOrigins(loans, expr.place), expr.kind.origin) >= 1
             /\ Count(OriginsAt("invalidate_origin", NodeOf(q[1], q[2])),
                      expr.kind.origin) >= 1

\* a finished run over a mutable borrow of a place with origins and loans
\* and a shared borrow
C15_Witness ==
    /\ pc = "done"
    /\ <<0, 1>> \in Processed
    /\ StatementAt(0, 0) = S_mut_px
    /\ StatementAt(0, 1) = S_r_bor_x
    /\ Len(facts.access_origin) = 3
    /\ Len(facts.invalidate_origin) = 1

(***************************************************************************)
(* C16  A reference-typed left-hand side does not invalidate.              *)
(***************************************************************************)
\* the invalidations at node that are left once those of the mutable borrows
\* of expr, which come last, are taken away: those of the assignment step
AssignmentStepInvalidations(node, expr) ==
    LET all == OriginsAt("invalidate_origin", node)
        borrowed == LoansOfPlaces(AccessesOf(expr, {"BorrowMut"}), 1)
    IN  IF Len(borrowed) <= Len(all)
           /\ SubSeq(all, Len(all) - Len(borrowed) + 1, Len(all)) = borrowed
        THEN Some(SubSeq(all, 1, Len(all) - Len(borrowed)))
        ELSE None

\* C16: for an Assign whose resolved LHS type is Ref or RefMut the
\* assignment step emits no invalidate_origin, even when the place has loans
\* in the index, so every invalidate_origin at the node comes from a
\* BorrowMut inside the expression; when the LHS type is not a reference the
\* assignment step emits one invalidate_origin per loan of the place, in
\* index order.
C16_RefLhsDoesNotInvalidate ==
    \A q \in Processed :
        LET s == StatementAt(q[1], q[2])
            node == NodeOf(q[1], q[2])
        IN  s.tag = "Assign" =>
               IF LhsTy(s).tag \in {"Ref", "RefMut"}
               THEN AssignmentStepInvalidations(node, s.expr) = Some(<<>>)
               ELSE AssignmentStepInvalidations(node, s.expr)
                       = Some(LoanOrigins(loans, s.place))

\* an assignment to the unique reference u, which has a loan in the index,
\* has been processed
C16_Witness ==
    /\ pc = "done"
    /\ <<0, 1>> \in Processed
    /\ StatementAt(0, 0) = S_mut_u
    /\ StatementAt(0, 1) = S_u_move_v
    /\ LoanOrigins(loans, Var("u")) = <<"'K">>
    /\ OriginsAt("invalidate_origin", NodeOf(0, 1)) = <<>>

(***************************************************************************)
(* C17  Copy and Move are pure reads.                                      *)
(***************************************************************************)
\* the statement has no borrow anywhere in its expression
ReadsOnly(s) == AccessesOf(s.expr, {"Borrow", "BorrowMut"}) = <<>>

\* the origins an assignment clears for its left-hand side
LhsClears(s) == IF s.tag = "Assign" THEN LhsOrigins(s) ELSE <<>>

\* the statement assigns the copy or move of an i32 place to an i32 place
AssignsI32(s) ==
    /\ s.tag = "Assign"
    /\ s.expr.tag = "Access"
    /\ s.expr.kind.tag \in {"Copy", "Move"}
    /\ ty_of_place(program, s.place).ok
    /\ LhsTy(s) = I32
    /\ ty_of_place(program, s.expr.place).ok
    /\ ty_of_place(program, s.expr.place).ty = I32

\* C17: evaluating a Copy or Move of a place appends one access_origin per
\* element of origins_of(place), in order, and neither a clear_origin nor an
\* invalidate_origin: at the node of a statement that only reads, the
\* accesses are the origins of the places read, the clears those of the
\* left-hand side, the invalidations those of the assignment step.  A place
\* whose type has no origins appends nothing, and an assignment between i32
\* places emits no introduce_subset.
C17_CopyMovePureReads ==
    \A q \in Processed :
        LET s == StatementAt(q[1], q[2])
            node == NodeOf(q[1], q[2])
        IN  /\ ReadsOnly(s) =>
                 /\ OriginsAt("access_origin", node)
                       = OriginsOfPlaces(AccessesOf(s.expr, {"Copy", "Move"}), 1)
                 /\ OriginsAt("clear_origin", node) = LhsClears(s)
                 /\ OriginsAt("invalidate_origin", node) = LhsInvalidations(s)
            /\ AssignsI32(s) =>
                 /\ OriginsAt("access_origin", node) = <<>>
                 /\ SubsetsAt(node) = <<>>

\* a finished run over a copy of b.v, whose origins are 'b twice, and a
\* copy between i32 variables
C17_Witness ==
    /\ pc = "done"
    /\ <<0, 1>> \in Processed
    /\ StatementAt(0, 0) = S_r_copy_bv
    /\ StatementAt(0, 1) = S_y_copy_x
    /\ OriginsAt("access_origin", NodeOf(0, 0)) = <<"'b", "'b">>
    /\ OriginsAt("clear_origin", NodeOf(0, 0)) = <<"'r">>
    /\ AssignsI32(S_y_copy_x)

(***************************************************************************)
(* C18  Calls introduce no subsets.                                        *)
(***************************************************************************)
\* the statement assigns the result of a call
AssignsCall(s) == s.tag = "Assign" /\ s.expr.tag = "Call"

\* C18: for an Assign of a Call, whatever the LHS type, the emitter clears
\* the LHS origins, emits the expression facts of every argument in argument
\* order and no introduce_subset at the node, and does not panic on the LHS
\* origins that no subset relates: it panics only when a place of the
\* statement does not resolve.
C18_CallsIntroduceNoSubsets ==
    /\ \A q \in Processed :
          LET s == StatementAt(q[1], q[2])
              node == NodeOf(q[1], q[2])
          IN  AssignsCall(s) =>
                 /\ SubsetsAt(node) = <<>>
                 /\ OriginsAt("clear_origin", node)
                       = LhsOrigins(s) \o BorrowOrigins(s.expr)
                 /\ OriginsAt("access_origin", node)
                       = OriginsOfPlaces(AccessesOf(s.expr,
                                            {"BorrowMut", "Copy", "Move"}), 1)
                 /\ OriginsAt("invalidate_origin", node)
                       = LhsInvalidations(s)
                         \o LoansOfPlaces(AccessesOf(s.expr, {"BorrowMut"}), 1)
    /\ pc = "panic" /\ AssignsCall(StatementAt(block_idx, stmt_idx))
          => HasStructuralError(StatementAt(block_idx, stmt_idx))

\* a finished run over v = f(move u), whose LHS type carries the origin 'v
C18_Witness ==
    /\ pc = "done"
    /\ <<0, 0>> \in Processed
    /\ StatementAt(0, 0) = S_v_call
    /\ OriginsAt("clear_origin", NodeOf(0, 0)) = <<"'v">>
    /\ OriginsAt("access_origin", NodeOf(0, 0)) = <<"'u">>
    /\ facts.introduce_subset = <<>>

(***************************************************************************)
(* C19  Subset direction under variance.                                   *)
(***************************************************************************)
RECURSIVE RelatedPairs(_, _, _)
RECURSIVE RelatedParameterPairs(_, _, _, _)
\* the subsets of relating target to source: for every pair of type
\* parameters that are both shared or both unique references the forward
\* subset (source, target), followed at once by the reverse one when the
\* variance is Invariant; below a pair of unique references the variance
\* is Invariant
RelatedPairs(target, source, invariant) ==
    IF target.tag = "Struct" /\ source.tag = "Struct"
    THEN RelatedParameterPairs(target.parameters, source.parameters, 1, invariant)
    ELSE <<>>

RelatedParameterPairs(targets, sources, k, invariant) ==
    IF k > Len(targets) \/ k > Len(sources) THEN <<>>
    ELSE
    (IF targets[k].tag = "Ty" /\ sources[k].tag = "Ty"
     THEN IF targets[k].ty.tag \in {"Ref", "RefMut"}
             /\ targets[k].ty.tag = sources[k].ty.tag
          THEN << <<sources[k].ty.origin, targets[k].ty.origin>> >>
               \o (IF invariant
                   THEN << <<targets[k].ty.origin, sources[k].ty.origin>> >>
                   ELSE <<>>)
               \o RelatedPairs(targets[k].ty.ty, sources[k].ty.ty,
                               invariant \/ targets[k].ty.tag = "RefMut")
          ELSE RelatedPairs(targets[k].ty, sources[k].ty, invariant)
     ELSE <<>>)
    \o RelatedParameterPairs(targets, sources, k + 1, invariant)

\* the subsets of assigning the access rhs, of a place of type rhs_ty, to a
\* place of type lhs_ty: the walk starts Invariant from an assignment to a
\* unique reference
AssignmentSubsets(lhs_ty, rhs, rhs_ty) ==
    LET kind == rhs.kind.tag IN
    CASE lhs_ty.tag = "Ref" /\ kind = "Borrow" ->
            << <<rhs.kind.origin, lhs_ty.origin>> >>
            \o RelatedPairs(lhs_ty.ty, rhs_ty, FALSE)
      [] lhs_ty.tag = "RefMut" /\ kind = "BorrowMut" ->
            << <<rhs.kind.origin, lhs_ty.origin>> >>
            \o RelatedPairs(lhs_ty.ty, rhs_ty, TRUE)
      [] is_ref(lhs_ty) /\ kind \in {"Copy", "Move"} /\ rhs_ty.tag = lhs_ty.tag ->
            << <<rhs_ty.origin, lhs_ty.origin>> >>
            \o RelatedPairs(lhs_ty.ty, rhs_ty.ty, lhs_ty.tag = "RefMut")
      [] lhs_ty.tag = "Struct" /\ kind \in {"Copy", "Move"} ->
            RelatedPairs(lhs_ty, rhs_ty, FALSE)
      [] OTHER -> <<>>

\* the subset is followed at once by its reverse
ReverseFollows(subsets, k) ==
    k < Len(subsets) /\ subsets[k + 1] = <<subsets[k][2], subsets[k][1]>>

\* C19: the subsets of every assignment go from source to target; the
\* reverse fact is emitted only for a pair of reference-typed struct
\* parameters related under Invariant variance, immediately after the
\* forward fact; the variance is Invariant exactly when the walk started
\* from an assignment to a unique reference or passed through a pair of
\* RefMut parameters.
C19_SubsetDirection ==
    \A q \in Processed :
        LET s == StatementAt(q[1], q[2])
            node == NodeOf(q[1], q[2])
        IN  /\ s.tag = "Assign" /\ s.expr.tag = "Access" =>
                 SubsetsAt(node)
                    = AssignmentSubsets(LhsTy(s), s.expr,
                                        ty_of_place(program, s.expr.place).ty)
            /\ s.tag = "Assign" /\ s.expr.tag /= "Access" => SubsetsAt(node) = <<>>
            /\ s.tag = "Assign" /\ SubsetsAt(node) /= <<>> /\ is_ref(LhsTy(s)) =>
                 /\ SubsetsAt(node)[1][2] = LhsTy(s).origin
                 /\ ~ReverseFollows(SubsetsAt(node), 1)

\* a finished run over d = &'L mut b, whose walk starts Invariant, and
\* m = move n, whose walk starts Covariant and passes a pair of RefMut
\* parameters
C19_Witness ==
    /\ pc = "done"
    /\ <<0, 1>> \in Processed
    /\ StatementAt(0, 0) = S_d_mut_b
    /\ StatementAt(0, 1) = S_m_move_n
    /\ SubsetsAt(NodeOf(0, 0))
         = << <<"'L", "'d">>, <<"'b", "'e">>, <<"'e", "'b">> >>
    /\ SubsetsAt(NodeOf(0, 1))
         = << <<"'n1", "'m1">>, <<"'n2", "'m2">>, <<"'m2", "'n2">> >>

(***************************************************************************)
(* C20  Origin collection stops at the first type parameter.               *)
(***************************************************************************)
RECURSIVE CollectedOrigins(_)
RECURSIVE CollectedOfParameters(_, _)
\* the origins of a type in pre-order: the origin of a reference and then
\* those of its referent; for a struct those of its parameters up to and
\* including the first type parameter
CollectedOrigins(ty) ==
    CASE ty.tag \in {"Ref", "RefMut"} -> <<ty.origin>> \o CollectedOrigins(ty.ty)
      [] ty.tag = "Struct" -> CollectedOfParameters(ty.parameters, 1)
      [] OTHER -> <<>>

CollectedOfParameters(parameters, k) ==
    IF k > Len(parameters) THEN <<>>
    ELSE IF parameters[k].tag = "Ty" THEN CollectedOrigins(parameters[k].ty)
         ELSE <<parameters[k].origin>> \o CollectedOfParameters(parameters, k + 1)

\* the origins that stand after the first type parameter of a struct type
\* of the program's variables
RECURSIVE LaterOrigins(_, _, _)
LaterOrigins(parameters, k, after) ==
    IF k > Len(parameters) THEN {}
    ELSE (IF after THEN {AllOrigins(parameters[k].ty)[j] :
                            j \in 1..(IF parameters[k].tag = "Ty"
                                      THEN Len(AllOrigins(parameters[k].ty))
                                      ELSE 0)}
                        \cup (IF parameters[k].tag = "Origin"
                              THEN {parameters[k].origin} ELSE {})
          ELSE {})
         \cup LaterOrigins(parameters, k + 1, after \/ parameters[k].tag = "Ty")

\* the statement reads a whole variable
ReadsVariable(s) ==
    /\ s.expr.tag = "Access"
    /\ s.expr.kind.tag \in {"Copy", "Move"}
    /\ s.expr.place.fields = <<>>
    /\ ty_of_place(program, s.expr.place).ok

FieldPaths == { <<>>, <<"v">>, <<"x">>, <<"v", "v">>, <<"f">> }

\* the place stands for the dereference of a declared variable
DerefOfVariable(place) ==
    /\ Len(place.base) = 2
    /\ place.base[1] = "*"
    /\ \E k \in 1..Len(program.variables) :
          program.variables[k].name = Tail(place.base)

\* the place with the `*` of its base taken away
Underlying(place) == Place(Tail(place.base), place.fields)

\* C21: for every declared variable x and field path f, the resolved type
\* and the origins_of of the place of base *x are those of the place of
\* base x, no reference level being removed; so a mutable borrow of *x
\* accesses the origin of the reference type of x itself.
C21_DerefIsTransparent ==
    \* resolution reads the declarations only, which all programs share: the
    \* declared variables and the field paths are compared in the runs over
    \* the programs without statements
    /\ pc = "rendered" /\ Positions = {} =>
          \A k \in 1..Len(program.variables) : \A f \in FieldPaths :
             LET name == program.variables[k].name IN
             /\ ty_of_place(program, Place(<<"*">> \o name, f))
                   = ty_of_place(program, Place(name, f))
             /\ origins_of_place(program, Place(<<"*">> \o name, f))
                   = origins_of_place(program, Place(name, f))
    \* the dereferenced places of the program's statements
    /\ \A q \in Positions :
          LET places == StatementPlaces(StatementAt(q[1], q[2])) IN
          \A k \in 1..Len(places) :
             DerefOfVariable(places[k]) =>
                /\ ty_of_place(program, places[k])
                      = ty_of_place(program, Underlying(places[k]))
                /\ origins_of_place(program, places[k])
                      = origins_of_place(program, Underlying(places[k]))
    /\ \A q \in Processed :
          LET s == StatementAt(q[1], q[2])
              node == NodeOf(q[1], q[2])
          IN  /\ s.expr.tag = "Access"
              /\ s.expr.kind.tag = "BorrowMut"
              /\ DerefOfVariable(s.expr.place)
              => LET ty == ty_of_place(program, Underlying(s.expr.place)).ty IN
                 /\ OriginsAt("access_origin", node)
                       = origins_of_place(program, Underlying(s.expr.place)).origins
                 /\ s.expr.place.fields = <<>> /\ ty.tag \in {"Ref", "RefMut"}
                       => /\ OriginsAt("access_origin", node) /= <<>>
                          /\ OriginsAt("access_origin", node)[1] = ty.origin

\* a finished run over v = &'L mut *u, with u: &'u mut T
C21_Witness ==
    /\ pc = "done"
    /\ <<0, 0>> \in Processed
    /\ StatementAt(0, 0) = S_v_mut_deref_u
    /\ OriginsAt("access_origin", NodeOf(0, 0)) = <<"'u">>
    /\ OriginsAt("invalidate_origin", NodeOf(0, 0)) = <<"'L">>
    /\ SubsetsAt(NodeOf(0, 0)) = << <<"'L", "'v">> >>

(***************************************************************************)
(* C22  Contravariance is unreachable.                                     *)
(***************************************************************************)
\* the calls of relate_tys made for the statement
RelateCallsOf(s) ==
    IF s.tag = "Assign" /\ s.expr.tag = "Access"
    THEN MatchSubsetCalls(LhsTy(s), s.expr.kind.tag,
                          ty_of_place(program, s.expr.place))
    ELSE <<>>

\* C22: in every run no call of relate_tys, from emit_subset_facts or from
\* relate_tys itself, receives Contravariant: the variance is Covariant or
\* Invariant, and a call made under Invariant receives Invariant.
C22_ContravarianceUnreachable ==
    \A q \in Processed :
        LET calls == RelateCallsOf(StatementAt(q[1], q[2])) IN
        \A k \in 1..Len(calls) :
           /\ calls[k].variance /= "Contravariant"
           /\ calls[k].variance \in {"Covariant", "Invariant"}
           /\ calls[k].caller = "Invariant" => calls[k].variance = "Invariant"

\* a finished run over m = move n, whose walk starts Covariant, turns
\* Invariant below the pair of unique references and stays so
C22_Witness ==
    /\ pc = "done"
    /\ <<0, 0>> \in Processed
    /\ StatementAt(0, 0) = S_m_move_n
    /\ RelateCallsOf(S_m_move_n)
         = << [variance |-> "Covariant", caller |-> "none"],
              [variance |-> "Invariant", caller |-> "Covariant"],
              [variance |-> "Invariant", caller |-> "Invariant"] >>

(***************************************************************************)
(* C23  Facts live only on statement nodes.                                *)
(***************************************************************************)
\* the nodes of the statements of the program
StatementNodes == {NodeOf(q[1], q[2]) : q \in Positions}

\* the nodes named by the facts that are no CFG edges
FactNodes ==
    {facts.access_origin[k][2] : k \in 1..Len(facts.access_origin)}
    \cup {facts.clear_origin[k][2] : k \in 1..Len(facts.clear_origin)}
    \cup {facts.invalidate_origin[k][2] : k \in 1..Len(facts.invalidate_origin)}
    \cup {facts.introduce_subset[k][3] : k \in 1..Len(facts.introduce_subset)}
    \cup {facts.node_text[k][2] : k \in 1..Len(facts.node_text)}

\* the blocks without statements
EmptyBlocks == {b \in 0..(Len(Blocks) - 1) : Blocks[b + 1].statements = <<>>}

\* the node_text facts at the node
NodeTextsAt(node) == SelectSeq(facts.node_text, LAMBDA t : t[2] = node)

\* C23: in every state of a run each access_origin, clear_origin,
\* invalidate_origin, introduce_subset and node_text fact names the node of
\* an existing statement (block b, index i below the statement count of b);
\* there is exactly one node_text fact per statement already processed; and
\* the single node of an empty block occurs in cfg_edge facts only.
C23_FactsOnStatementNodes ==
    /\ FactNodes \subseteq StatementNodes
    /\ \A q \in Processed : Len(NodeTextsAt(NodeOf(q[1], q[2]))) = 1
    /\ Len(facts.node_text)
          = Cardinality(Processed) + (IF pc = "panic" THEN 1 ELSE 0)
    /\ \A b \in EmptyBlocks : NodeOf(b, 0) \notin FactNodes

\* the run has finished over a program with a statement that emitted facts
\* and an empty block whose node is the endpoint of a CFG edge
C23_Witness ==
    /\ pc = "done"
    /\ FactNodes /= {}
    /\ facts.access_origin /= <<>> \/ facts.clear_origin /= <<>>
    /\ \E b \in EmptyBlocks :
          \E k \in 1..Len(facts.cfg_edge) :
             NodeOf(b, 0) \in {facts.cfg_edge[k][1], facts.cfg_edge[k][2]}

=============================================================================
